---- MODULE Spec2Model ----
(***************************************************************************)
(* A model of the editing engine of the wee terminal editor (src/wee.c):   *)
(* the row store, the selection, the clipboard and the snapshot based      *)
(* undo/redo history, driven by editorProcessKeypress.                     *)
(*                                                                         *)
(* The global `struct editorConfig E' is the record variable E.  Rows are  *)
(* kept in a 1-based sequence: the C expression E.row[i] is E.row[i + 1].  *)
(* The snapshot chain (a doubly linked list in C) is the sequence          *)
(* undo_system.snaps from head to tail; undo_system.current is the         *)
(* position of `current' in it, 0 standing for NULL.  snap->prev and       *)
(* snap->next are the neighbouring positions.  time(NULL) is the variable  *)
(* now, which each keypress advances by the time the user waited.          *)
(* Display-only fields (rx, rowoff, coloff, screen size, statusmsg_time,   *)
(* the snapshot timestamp) are read by no operation modelled here and are  *)
(* left out.  The field E.ub records that a handler read or wrote outside  *)
(* the row array or a row buffer (undefined behaviour in C).               *)
(***************************************************************************)
EXTENDS Integers, Sequences, FiniteSets, TLC

(* ------------------------- program constants ------------------------- *)

WEE_TAB_STOP == 4

WEE_QUIT_TIMES == 2

MAX_SNAPSHOTS == 50

NORMAL_MODE == 0

SELECTION_MODE == 1

(* ------------------------------ bounds ------------------------------- *)

\* keypresses explored by the specification of all keys
MaxKeys == 3

\* keypresses explored by the history specification
UndoKeys == 6

\* keypresses explored by the file specification
FileKeys == 3

\* keypresses explored by the selection specification
SelKeys == 7

\* edits beyond the history capacity explored by the capacity specification
CapExtra == 2

\* keypresses explored by the editing specification
EditDepth == 4

\* calls explored by the specification of the row store
StoreCalls == 2

\* how far outside the valid range the positions given to the row store lie
PosSlack == 1

\* keys explored by the specification of typing sessions
TypingKeys == 4

\* keys explored by the specification of quitting
QuitKeys == 5

\* keys explored by the specification of repeated highlighting
RescanKeys == 4

\* keys explored by the specification of cut and paste
CutKeys == 6

\* keys explored by the specification of block moves
MoveKeys == 5

\* keys explored by the specification of quick selection
QuickKeys == 4

\* keys explored by the specification of copy, cut and paste
PasteKeys == 5

\* keys explored by the specification of syntax highlighting
SyntaxKeys == 3

\* keys explored by the specification of the selection operations
BlockKeys == 5

\* calls explored by the specification of the row functions
RowCalls == 2

\* longest row the specification of the row functions starts from
MaxRowLen == 3

\* the clock value at program start (any value above the typing threshold)
StartTime == 3

VARIABLES
  E,                 \* struct editorConfig E
  now,               \* the clock read by time(NULL)
  last_typing_time,  \* static in editorProcessKeypress
  quit_times,        \* static in editorProcessKeypress
  exited,            \* exit(0) has been called
  nkeys,             \* number of keypresses processed so far
  log                \* the last two keypresses: key, time, state before it

vars == <<E, now, last_typing_time, quit_times, exited, nkeys, log>>

(* ------------------------------ helpers ------------------------------ *)

Prefix(s, n) == SubSeq(s, 1, n)

Suffix(s, n) == SubSeq(s, n + 1, Len(s))

\* F applied to the value of x, which is evaluated once
Bind(x, F(_)) == CHOOSE r \in {F(v) : v \in {x}} : TRUE

Spaces(n) == [i \in 1..n |-> " "]

\* the raw text of a document: the chars of its rows, in order
Text(e) == [i \in 1..Len(e.row) |-> e.row[i].chars]

(* ------------------------- syntax highlighting ----------------------- *)

\* E.syntax is <<>> (NULL) or <<syn>>, syn the record editorSelectSyntaxHighlight
\* builds from a syntax file: scs, mcs, mce are the comment markers (<<>>
\* when the file has none), keywords the keyword list (a trailing "|" marks
\* a keyword of the second kind), flags a subset of
\* {"HL_HIGHLIGHT_NUMBERS", "HL_HIGHLIGHT_STRINGS"}.

DigitChars == {"0", "1", "2", "3", "4", "5", "6", "7", "8", "9"}

\* is_separator: white space, the terminating NUL (past the end of render)
\* and the characters of ",.()+-/*=~%<>[];"
is_separator(render, i) ==
  \/ i >= Len(render)
  \/ render[i + 1] \in {" ", "\t", "\n", "\r", ",", ".", "(", ")", "+", "-", "/", "*",
                        "=", "~", "%", "<", ">", "[", "]", ";"}

\* !strncmp(&render[i], s, Len(s))
StartsWith(render, i, s) ==
  /\ i + Len(s) <= Len(render)
  /\ SubSeq(render, i + 1, i + Len(s)) = s

\* memset(&hl[i], v, n)
SetRange(hl, i, n, v) ==
  [k \in 1..Len(hl) |-> IF k > i /\ k <= i + n THEN v ELSE hl[k]]

\* the keyword text and kind of keywords[j]
KeywordText(kw) == IF kw[Len(kw)] = "|" THEN Prefix(kw, Len(kw) - 1) ELSE kw

KeywordMatches(render, i, kw) ==
  /\ StartsWith(render, i, KeywordText(kw))
  /\ is_separator(render, i + Len(KeywordText(kw)))

\* the scanning loop of editorUpdateSyntax: ScanRow is the loop from render
\* index i on, ScanStep one pass through its body on the loop variables v
RECURSIVE ScanRow(_, _, _, _, _, _, _)
RECURSIVE ScanStep(_, _, _)
ScanStep(syn, render, v) ==
  IF v.i >= Len(render) THEN [hl |-> v.hl, in_comment |-> v.in_comment]
  ELSE
    LET c == render[v.i + 1]
        prev_hl == IF v.i > 0 THEN v.hl[v.i] ELSE "HL_NORMAL"
        ml == Len(syn.mcs) > 0 /\ Len(syn.mce) > 0 /\ v.in_string = ""
        strings == "HL_HIGHLIGHT_STRINGS" \in syn.flags
        numbers == "HL_HIGHLIGHT_NUMBERS" \in syn.flags
        hits == {j \in 1..Len(syn.keywords) : KeywordMatches(render, v.i, syn.keywords[j])}
    IN
    IF Len(syn.scs) > 0 /\ v.in_string = "" /\ ~v.in_comment /\ StartsWith(render, v.i, syn.scs)
    THEN [hl |-> SetRange(v.hl, v.i, Len(render) - v.i, "HL_COMMENT"),
          in_comment |-> v.in_comment]
    ELSE IF ml /\ v.in_comment
    THEN IF StartsWith(render, v.i, syn.mce)
         THEN ScanRow(syn, render, SetRange(v.hl, v.i, Len(syn.mce), "HL_MLCOMMENT"),
                      v.i + Len(syn.mce), TRUE, v.in_string, FALSE)
         ELSE ScanRow(syn, render, SetRange(v.hl, v.i, 1, "HL_MLCOMMENT"),
                      v.i + 1, v.prev_sep, v.in_string, v.in_comment)
    ELSE IF ml /\ StartsWith(render, v.i, syn.mcs)
    THEN ScanRow(syn, render, SetRange(v.hl, v.i, Len(syn.mcs), "HL_MLCOMMENT"),
                 v.i + Len(syn.mcs), v.prev_sep, v.in_string, TRUE)
    ELSE IF strings /\ v.in_string /= ""
    THEN IF c = "\\" /\ v.i + 1 < Len(render)
         THEN ScanRow(syn, render, SetRange(v.hl, v.i, 2, "HL_STRING"),
                      v.i + 2, v.prev_sep, v.in_string, v.in_comment)
         ELSE ScanRow(syn, render, SetRange(v.hl, v.i, 1, "HL_STRING"),
                      v.i + 1, TRUE, IF c = v.in_string THEN "" ELSE v.in_string,
                      v.in_comment)
    ELSE IF strings /\ c \in {"\"", "'"}
    THEN ScanRow(syn, render, SetRange(v.hl, v.i, 1, "HL_STRING"),
                 v.i + 1, v.prev_sep, c, v.in_comment)
    ELSE IF numbers /\ (\/ (c \in DigitChars /\ (v.prev_sep \/ prev_hl = "HL_NUMBER"))
                        \/ (c = "." /\ prev_hl = "HL_NUMBER"))
    THEN ScanRow(syn, render, SetRange(v.hl, v.i, 1, "HL_NUMBER"),
                 v.i + 1, FALSE, v.in_string, v.in_comment)
    ELSE IF v.prev_sep /\ hits /= {}
    THEN LET j == CHOOSE x \in hits : \A y \in hits : x <= y
             kw == syn.keywords[j]
         IN  ScanRow(syn, render,
                     SetRange(v.hl, v.i, Len(KeywordText(kw)),
                              IF kw[Len(kw)] = "|" THEN "HL_KEYWORD2" ELSE "HL_KEYWORD1"),
                     v.i + Len(KeywordText(kw)), FALSE, v.in_string, v.in_comment)
    ELSE ScanRow(syn, render, v.hl, v.i + 1, is_separator(render, v.i),
                 v.in_string, v.in_comment)

\* the loop variables are bound to their values once per pass
ScanRow(syn, render, hl, i, prev_sep, in_string, in_comment) ==
  CHOOSE r \in {ScanStep(syn, render, v) :
                  v \in {[hl |-> hl, i |-> i, prev_sep |-> prev_sep,
                           in_string |-> in_string, in_comment |-> in_comment]}} : TRUE

\* editorUpdateSyntax(&E.row[r]): the scan starts from the row's own
\* hl_open_comment; when the flag changes the row at row->idx + 1 follows
RECURSIVE editorUpdateSyntax(_, _)
editorUpdateSyntax(e0, r) ==
  Bind(e0, LAMBDA e :
    LET row == e.row[r + 1]
        hl0 == [k \in 1..Len(row.render) |-> "HL_NORMAL"]
    IN  IF e.syntax = <<>> THEN [e EXCEPT !.row[r + 1].hl = hl0]
        ELSE Bind(ScanRow(e.syntax[1], row.render, hl0, 0, TRUE, "", row.hl_open_comment),
                  LAMBDA s :
             LET e1 == [e EXCEPT !.row[r + 1].hl = s.hl,
                                 !.row[r + 1].hl_open_comment = s.in_comment]
             IN  IF row.hl_open_comment /= s.in_comment /\ row.idx + 1 < e.numrows
                 THEN IF row.idx + 1 >= 0 /\ row.idx + 1 < Len(e.row)
                      THEN editorUpdateSyntax(e1, row.idx + 1)
                      ELSE [e1 EXCEPT !.ub = TRUE]
                 ELSE e1))

(* --------------------------- row operations -------------------------- *)

RECURSIVE RenderFrom(_, _, _)
RenderFrom(chars, j, out) ==
  IF j > Len(chars) THEN out
  ELSE IF chars[j] = "\t"
       THEN LET pad == WEE_TAB_STOP - (Len(out) % WEE_TAB_STOP)
            IN  RenderFrom(chars, j + 1, out \o Spaces(pad))
       ELSE RenderFrom(chars, j + 1, Append(out, chars[j]))

\* editorUpdateRow(&E.row[r]): render is rebuilt from chars, then the row is
\* highlighted again
editorUpdateRow(e0, r) ==
  Bind(e0, LAMBDA e :
    editorUpdateSyntax(
      [e EXCEPT !.row[r + 1].render = RenderFrom(e.row[r + 1].chars, 1, <<>>)], r))

\* the row editorInsertRow stores at position at before it calls editorUpdateRow
NewRow(at, s) ==
  [idx |-> at, chars |-> s, render |-> <<>>, hl |-> <<>>, hl_open_comment |-> FALSE]

\* may the code address row number i (0-based) of the document
RowOk(e, i) == i >= 0 /\ i < e.numrows /\ i < Len(e.row)

\* is (cy, cx) a position inside an existing row
PosOk(e, cy, cx) == RowOk(e, cy) /\ cx >= 0 /\ cx <= Len(e.row[cy + 1].chars)

Fault(e) == [e EXCEPT !.ub = TRUE]

editorSetStatusMessage(e, msg) == [e EXCEPT !.statusmsg = msg]

editorInsertRow(e, at, s) ==
  IF at < 0 \/ at > e.numrows THEN e
  ELSE LET shifted == [j \in 1..(e.numrows - at) |->
                         [e.row[at + j] EXCEPT !.idx = @ + 1]]
           e1 == [e EXCEPT !.row = Prefix(e.row, at) \o <<NewRow(at, s)>> \o shifted]
       IN  [editorUpdateRow(e1, at) EXCEPT !.numrows = @ + 1, !.dirty = @ + 1]

\* a row deletion that leaves the idx of the following rows as it was
editorDelRow_keepidx(e, at) ==
  IF at < 0 \/ at >= e.numrows THEN e
  ELSE [e EXCEPT !.row = Prefix(e.row, at) \o Suffix(e.row, at + 1),
                 !.numrows = @ - 1,
                 !.dirty = @ + 1]

editorDelRow(e, at) ==
  IF at < 0 \/ at >= e.numrows THEN e
  ELSE LET shifted == [j \in 1..(e.numrows - at - 1) |->
                         [e.row[at + 1 + j] EXCEPT !.idx = @ - 1]]
       IN  [e EXCEPT !.row = Prefix(e.row, at) \o shifted,
                     !.numrows = @ - 1,
                     !.dirty = @ + 1]

\* a truncation that forgets editorUpdateRow
TruncateRow_stale(e, r, n) == [e EXCEPT !.row[r + 1].chars = Prefix(@, n)]

\* row->size = n; editorUpdateRow(row): the row keeps its first n chars
TruncateRow(e, r, n) ==
  editorUpdateRow([e EXCEPT !.row[r + 1].chars = Prefix(@, n)], r)

RECURSIVE CxToRxFrom(_, _, _, _)
CxToRxFrom(chars, j, cx, rx) ==
  IF j >= cx THEN rx
  ELSE LET rx1 == IF chars[j + 1] = "\t"
                  THEN rx + (WEE_TAB_STOP - 1) - (rx % WEE_TAB_STOP) ELSE rx
       IN  CxToRxFrom(chars, j + 1, cx, rx1 + 1)

editorRowCxToRx(row, cx) == CxToRxFrom(row.chars, 0, cx, 0)

RECURSIVE RxToCxFrom(_, _, _, _)
RxToCxFrom(chars, cx, cur_rx, rx) ==
  IF cx >= Len(chars) THEN cx
  ELSE LET r1 == (IF chars[cx + 1] = "\t"
                  THEN cur_rx + (WEE_TAB_STOP - 1) - (cur_rx % WEE_TAB_STOP)
                  ELSE cur_rx) + 1
       IN  IF r1 > rx THEN cx ELSE RxToCxFrom(chars, cx + 1, r1, rx)

\* the conversion with `cur_rx >= rx' as its test
editorRowRxToCx_ge(row, rx) == RxToCxFrom(row.chars, 0, 0, rx - 1)

editorRowRxToCx(row, rx) == RxToCxFrom(row.chars, 0, 0, rx)

\* an insertion that puts a position in front of the row at its start
editorRowInsertChar_front(e, r, at0, c) ==
  LET chars == e.row[r + 1].chars
      at == IF at0 < 0 THEN 0 ELSE IF at0 > Len(chars) THEN Len(chars) ELSE at0
  IN  [editorUpdateRow(
         [e EXCEPT !.row[r + 1].chars = Prefix(chars, at) \o <<c>> \o Suffix(chars, at)], r)
        EXCEPT !.dirty = @ + 1]

editorRowInsertChar(e, r, at0, c) ==
  LET chars == e.row[r + 1].chars
      at == IF at0 < 0 \/ at0 > Len(chars) THEN Len(chars) ELSE at0
  IN  [editorUpdateRow(
         [e EXCEPT !.row[r + 1].chars = Prefix(chars, at) \o <<c>> \o Suffix(chars, at)], r)
        EXCEPT !.dirty = @ + 1]

editorRowAppendString(e, r, s) ==
  [editorUpdateRow([e EXCEPT !.row[r + 1].chars = @ \o s], r) EXCEPT !.dirty = @ + 1]

\* a deletion that shrinks the row without moving the characters behind at
editorRowDelChar_last(e, r, at) ==
  LET chars == e.row[r + 1].chars
  IN  IF at < 0 \/ at >= Len(chars) THEN e
      ELSE [editorUpdateRow([e EXCEPT !.row[r + 1].chars = Prefix(chars, Len(chars) - 1)], r)
             EXCEPT !.dirty = @ + 1]

editorRowDelChar(e, r, at) ==
  LET chars == e.row[r + 1].chars
  IN  IF at < 0 \/ at >= Len(chars) THEN e
      ELSE [editorUpdateRow(
              [e EXCEPT !.row[r + 1].chars = Prefix(chars, at) \o Suffix(chars, at + 1)], r)
             EXCEPT !.dirty = @ + 1]

(* -------------------------- editor operations ------------------------- *)

\* the closing character editorInsertChar adds after an opening one
ClosingChar(c) ==
  CASE c = "(" -> <<")">>
    [] c = "[" -> <<"]">>
    [] c = "{" -> <<"}">>
    [] c = "\"" -> <<"\"">>
    [] c = "'" -> <<"'">>
    [] OTHER -> <<>>

editorInsertChar(e, c) ==
  LET e1 == IF e.cy = e.numrows THEN editorInsertRow(e, e.numrows, <<>>) ELSE e
  IN  IF ~RowOk(e1, e1.cy) THEN Fault(e1)
      ELSE LET e2 == [editorRowInsertChar(e1, e1.cy, e1.cx, c) EXCEPT !.cx = @ + 1]
           IN  IF ClosingChar(c) /= <<>>
               THEN editorRowInsertChar(e2, e2.cy, e2.cx, ClosingChar(c)[1])
               ELSE e2

\* number of leading spaces of a row
RECURSIVE LeadingSpaces(_, _)
LeadingSpaces(chars, n) ==
  IF n < Len(chars) /\ chars[n + 1] = " " THEN LeadingSpaces(chars, n + 1) ELSE n

RECURSIVE InsertIndent(_, _, _)
InsertIndent(e, i, n) ==
  IF i >= n THEN e
  ELSE InsertIndent([editorRowInsertChar(e, e.cy, i, " ") EXCEPT !.cx = @ + 1], i + 1, n)

\* the row split shared by editorInsertNewline and the newline case of editorPaste
SplitAtCursor(e) ==
  IF e.cx = 0 THEN editorInsertRow(e, e.cy, <<>>)
  ELSE IF ~PosOk(e, e.cy, e.cx) THEN Fault(e)
  ELSE TruncateRow(editorInsertRow(e, e.cy + 1, Suffix(e.row[e.cy + 1].chars, e.cx)),
                   e.cy, e.cx)

editorInsertNewline(e) ==
  LET prev_indent == IF RowOk(e, e.cy) THEN LeadingSpaces(e.row[e.cy + 1].chars, 0) ELSE 0
      e1 == [SplitAtCursor(e) EXCEPT !.cy = @ + 1, !.cx = 0]
  IN  IF RowOk(e1, e1.cy) /\ prev_indent > 0
      THEN InsertIndent(e1, 0, prev_indent)
      ELSE e1

\* a join that removes the row without appending it to the row above
editorDelChar_drop(e) ==
  IF e.cy = e.numrows THEN e
  ELSE IF e.cx = 0 /\ e.cy = 0 THEN e
  ELSE IF ~RowOk(e, e.cy) THEN Fault(e)
  ELSE IF e.cx > 0
       THEN [editorRowDelChar(e, e.cy, e.cx - 1) EXCEPT !.cx = @ - 1]
       ELSE [editorDelRow([e EXCEPT !.cx = Len(e.row[e.cy].chars)], e.cy) EXCEPT !.cy = @ - 1]

editorDelChar(e) ==
  IF e.cy = e.numrows THEN e
  ELSE IF e.cx = 0 /\ e.cy = 0 THEN e
  ELSE IF ~RowOk(e, e.cy) THEN Fault(e)
  ELSE IF e.cx > 0
       THEN [editorRowDelChar(e, e.cy, e.cx - 1) EXCEPT !.cx = @ - 1]
       ELSE LET e1 == [e EXCEPT !.cx = Len(e.row[e.cy].chars)]
                e2 == editorRowAppendString(e1, e.cy - 1, e.row[e.cy + 1].chars)
            IN  [editorDelRow(e2, e.cy) EXCEPT !.cy = @ - 1]

editorMoveCursor(e, key) ==
  LET hasrow == e.cy < e.numrows
      size == IF hasrow THEN Len(e.row[e.cy + 1].chars) ELSE 0
      e1 == CASE key = "ARROW_LEFT" ->
                   IF e.cx /= 0 THEN [e EXCEPT !.cx = @ - 1]
                   ELSE IF e.cy > 0
                        THEN [e EXCEPT !.cy = @ - 1, !.cx = Len(e.row[e.cy].chars)]
                        ELSE e
              [] key = "ARROW_RIGHT" ->
                   IF hasrow /\ e.cx < size THEN [e EXCEPT !.cx = @ + 1]
                   ELSE IF hasrow /\ e.cx = size THEN [e EXCEPT !.cy = @ + 1, !.cx = 0]
                   ELSE e
              [] key = "ARROW_UP" -> IF e.cy /= 0 THEN [e EXCEPT !.cy = @ - 1] ELSE e
              [] key = "ARROW_DOWN" -> IF e.cy < e.numrows THEN [e EXCEPT !.cy = @ + 1] ELSE e
              [] OTHER -> e
      rowlen == IF e1.cy < e1.numrows THEN Len(e1.row[e1.cy + 1].chars) ELSE 0
  IN  IF e1.cx > rowlen THEN [e1 EXCEPT !.cx = rowlen] ELSE e1

(* ----------------------------- selection ----------------------------- *)

\* the two stored endpoints ordered by (row, column)
Normalized(e) ==
  IF e.selection_start_cy > e.selection_end_cy
     \/ (e.selection_start_cy = e.selection_end_cy
         /\ e.selection_start_cx > e.selection_end_cx)
  THEN [start_cx |-> e.selection_end_cx, start_cy |-> e.selection_end_cy,
        end_cx |-> e.selection_start_cx, end_cy |-> e.selection_start_cy]
  ELSE [start_cx |-> e.selection_start_cx, start_cy |-> e.selection_start_cy,
        end_cx |-> e.selection_end_cx, end_cy |-> e.selection_end_cy]

\* both endpoints address characters the code may read
SelectionOk(e) ==
  /\ PosOk(e, e.selection_start_cy, e.selection_start_cx)
  /\ PosOk(e, e.selection_end_cy, e.selection_end_cx)

\* a copy that leaves out the rows between the first and the last
RECURSIVE MiddleRows_skip(_, _, _)
MiddleRows_skip(e, i, last) == <<>>

RECURSIVE MiddleRows(_, _, _)
MiddleRows(e, i, last) ==
  IF i >= last THEN <<>>
  ELSE e.row[i + 1].chars \o <<"\n">> \o MiddleRows(e, i + 1, last)

\* first-row remainder, newline, full middle rows with newlines, last-row prefix
editorGetSelection(e) ==
  LET n == Normalized(e)
  IN  IF n.start_cy = n.end_cy
      THEN SubSeq(e.row[n.start_cy + 1].chars, n.start_cx + 1, n.end_cx)
      ELSE Suffix(e.row[n.start_cy + 1].chars, n.start_cx) \o <<"\n">>
           \o MiddleRows(e, n.start_cy + 1, n.end_cy)
           \o Prefix(e.row[n.end_cy + 1].chars, n.end_cx)

\* a row loop that counts upwards from start_cy + 1 to i
RECURSIVE DelRowsDownTo_upward(_, _, _)
DelRowsDownTo_upward(e, i, start_cy) ==
  IF i <= start_cy THEN e ELSE editorDelRow(DelRowsDownTo_upward(e, i - 1, start_cy), i)

RECURSIVE DelRowsDownTo(_, _, _)
DelRowsDownTo(e, i, start_cy) ==
  IF i <= start_cy THEN e ELSE DelRowsDownTo(editorDelRow(e, i), i - 1, start_cy)

editorDelCharSelection(e) ==
  IF e.selection_active = 0
  THEN editorSetStatusMessage(e, <<"editorDelCharSelection: Selection not active.">>)
  ELSE LET n == Normalized(e)
       IN  IF n.start_cy = n.end_cy /\ n.start_cx = n.end_cx
           THEN editorSetStatusMessage([e EXCEPT !.selection_active = 0],
                                       <<"editorDelCharSelection: Empty selection.">>)
           ELSE IF ~SelectionOk(e) THEN Fault(e)
           ELSE LET suffix == Suffix(e.row[n.end_cy + 1].chars, n.end_cx)
                    e1 == TruncateRow(e, n.start_cy, n.start_cx)
                    e2 == DelRowsDownTo(e1, n.end_cy, n.start_cy)
                    e3 == IF Len(suffix) > 0
                          THEN editorRowAppendString(e2, n.start_cy, suffix)
                          ELSE e2
                IN  editorSetStatusMessage(
                      [e3 EXCEPT !.cx = n.start_cx, !.cy = n.start_cy,
                                 !.selection_active = 0, !.dirty = @ + 1],
                      <<"editorDelCharSelection: Done.">>)

\* editorUpdateSyntax on the rows i..end_cy that exist
RECURSIVE ResyntaxRows(_, _, _)
ResyntaxRows(e, i, end_cy) ==
  IF i > end_cy \/ i >= e.numrows THEN e
  ELSE IF i < 0 THEN Fault(e)
  ELSE ResyntaxRows(editorUpdateSyntax(e, i), i + 1, end_cy)

editorDeselectSelection(e) ==
  IF e.selection_active /= 0
  THEN LET start_cy == IF e.selection_start_cy > e.selection_end_cy
                       THEN e.selection_end_cy ELSE e.selection_start_cy
           end_cy == IF e.selection_start_cy > e.selection_end_cy
                     THEN e.selection_start_cy ELSE e.selection_end_cy
       IN  ResyntaxRows([e EXCEPT !.selection_active = 0], start_cy, end_cy)
  ELSE e

editorCopySelection(e) ==
  IF e.selection_active = 0 THEN e
  ELSE IF ~SelectionOk(e) THEN Fault(e)
  ELSE LET text == editorGetSelection(e)
           e1 == [e EXCEPT !.clipboard = <<text>>, !.clipboard_len = Len(text)]
       IN  editorSetStatusMessage(editorDeselectSelection(e1), <<"Selection copied.">>)

editorCutSelection(e) ==
  IF e.selection_active = 0 THEN e
  ELSE IF ~SelectionOk(e) THEN Fault(e)
  ELSE LET text == editorGetSelection(e)
           e1 == [e EXCEPT !.clipboard = <<text>>, !.clipboard_len = Len(text)]
       IN  editorSetStatusMessage(editorDelCharSelection(e1), <<"Selection cut.">>)

editorCopyLine(e) ==
  IF e.cy >= e.numrows THEN e
  ELSE editorSetStatusMessage(
         [e EXCEPT !.clipboard = <<e.row[e.cy + 1].chars>>,
                   !.clipboard_len = Len(e.row[e.cy + 1].chars)],
         <<"Line copied.">>)

editorCutLine(e) ==
  IF e.cy >= e.numrows THEN e
  ELSE LET e1 == editorDelRow(editorCopyLine(e), e.cy)
           e2 == IF e1.cy >= e1.numrows /\ e1.numrows > 0
                 THEN [e1 EXCEPT !.cy = e1.numrows - 1,
                                 !.cx = Len(e1.row[e1.numrows].chars)]
                 ELSE IF e1.numrows = 0 THEN [e1 EXCEPT !.cy = 0, !.cx = 0]
                 ELSE e1
       IN  editorSetStatusMessage(e2, <<"Line cut.">>)

RECURSIVE PasteFrom(_, _)
PasteFrom(e, i) ==
  IF i > e.clipboard_len THEN e
  ELSE IF e.clipboard[1][i] = "\n"
       THEN PasteFrom([SplitAtCursor(e) EXCEPT !.cy = @ + 1, !.cx = 0], i + 1)
       ELSE LET e1 == IF e.cy = e.numrows THEN editorInsertRow(e, e.numrows, <<>>) ELSE e
            IN  IF ~RowOk(e1, e1.cy) THEN Fault(e1)
                ELSE PasteFrom([editorRowInsertChar(e1, e1.cy, e1.cx, e.clipboard[1][i])
                                  EXCEPT !.cx = @ + 1], i + 1)

editorPaste(e) ==
  IF e.clipboard = <<>> THEN e
  ELSE LET e0 == IF e.selection_active /= 0 THEN editorDelCharSelection(e) ELSE e
           e1 == PasteFrom(e0, 1)
       IN  editorSetStatusMessage(
             [e1 EXCEPT !.selection_start_cx = e0.cx, !.selection_start_cy = e0.cy,
                        !.selection_end_cx = e1.cx, !.selection_end_cy = e1.cy,
                        !.selection_active = 1, !.mode = SELECTION_MODE],
             <<"Pasted and selected.">>)

\* an indent loop that stops one row before end_cy
RECURSIVE IndentRows_short(_, _, _, _)
IndentRows_short(e, i, end_cy, j) ==
  IF i >= end_cy THEN e
  ELSE IF ~RowOk(e, i) THEN Fault(e)
  ELSE IF j >= WEE_TAB_STOP THEN IndentRows_short(e, i + 1, end_cy, 0)
  ELSE IndentRows_short(editorRowInsertChar(e, i, 0, " "), i, end_cy, j + 1)

RECURSIVE IndentRows(_, _, _, _)
IndentRows(e, i, end_cy, j) ==
  IF i > end_cy THEN e
  ELSE IF ~RowOk(e, i) THEN Fault(e)
  ELSE IF j >= WEE_TAB_STOP THEN IndentRows(e, i + 1, end_cy, 0)
  ELSE IndentRows(editorRowInsertChar(e, i, 0, " "), i, end_cy, j + 1)

editorIndentSelection(e) ==
  IF e.selection_active = 0 THEN e
  ELSE LET start_cy == IF e.selection_start_cy > e.selection_end_cy
                       THEN e.selection_end_cy ELSE e.selection_start_cy
           end_cy == IF e.selection_start_cy > e.selection_end_cy
                     THEN e.selection_start_cy ELSE e.selection_end_cy
       IN  [IndentRows(e, start_cy, end_cy, 0)
              EXCEPT !.selection_start_cx = @ + WEE_TAB_STOP,
                     !.selection_end_cx = @ + WEE_TAB_STOP,
                     !.dirty = @ + 1]

\* the inner loop of editorUnindentSelection on row i: at most WEE_TAB_STOP
\* leading spaces are removed; the result carries the number removed
RECURSIVE UnindentRow(_, _, _, _)
UnindentRow(e, i, j, count) ==
  IF j < WEE_TAB_STOP /\ Len(e.row[i + 1].chars) > 0 /\ e.row[i + 1].chars[1] = " "
  THEN UnindentRow(editorRowDelChar(e, i, 0), i, j + 1, count + 1)
  ELSE [e |-> e, count |-> count]

RECURSIVE UnindentRows(_, _, _)
UnindentRows(e, i, end_cy) ==
  IF i > end_cy THEN e
  ELSE IF ~RowOk(e, i) THEN Fault(e)
  ELSE LET r == UnindentRow(e, i, 0, 0)
           e1 == IF i = r.e.selection_start_cy
                 THEN [r.e EXCEPT !.selection_start_cx =
                                    IF @ - r.count < 0 THEN 0 ELSE @ - r.count]
                 ELSE r.e
           e2 == IF i = e1.selection_end_cy
                 THEN [e1 EXCEPT !.selection_end_cx =
                                   IF @ - r.count < 0 THEN 0 ELSE @ - r.count]
                 ELSE e1
       IN  UnindentRows(e2, i + 1, end_cy)

editorUnindentSelection(e) ==
  IF e.selection_active = 0 THEN e
  ELSE LET start_cy == IF e.selection_start_cy > e.selection_end_cy
                       THEN e.selection_end_cy ELSE e.selection_start_cy
           end_cy == IF e.selection_start_cy > e.selection_end_cy
                     THEN e.selection_start_cy ELSE e.selection_end_cy
       IN  [UnindentRows(e, start_cy, end_cy) EXCEPT !.dirty = @ + 1]

(* ------------------------------ block move --------------------------- *)

\* is there a space in front of the part of row i that the selection covers
SpaceBefore(e, n, i) ==
  IF i = n.start_cy
  THEN n.start_cx > 0 /\ e.row[i + 1].chars[n.start_cx] = " "
  ELSE Len(e.row[i + 1].chars) > 0 /\ e.row[i + 1].chars[1] = " "

\* a test that looks at the first row of the selection only
editorCanMoveSelectionLeft_first(e) ==
  LET n == Normalized(e)
  IN  e.selection_active /= 0 /\ SpaceBefore(e, n, n.start_cy)

editorCanMoveSelectionLeft(e) ==
  LET n == Normalized(e)
  IN  /\ e.selection_active /= 0
      /\ IF n.start_cy = n.end_cy THEN SpaceBefore(e, n, n.start_cy)
         ELSE \A i \in n.start_cy..n.end_cy : SpaceBefore(e, n, i)

\* the loop of editorMoveSelectionLeft over the rows i..n.end_cy of a
\* selection of several rows
RECURSIVE MoveLeftRows(_, _, _)
MoveLeftRows(e, n, i) ==
  IF i > n.end_cy THEN e
  ELSE IF ~SpaceBefore(e, n, i) THEN MoveLeftRows(e, n, i + 1)
  ELSE IF i = n.start_cy
       THEN MoveLeftRows([editorRowDelChar(e, i, n.start_cx - 1)
                            EXCEPT !.selection_start_cx = @ - 1], n, i + 1)
       ELSE LET e1 == editorRowDelChar(e, i, 0)
            IN  MoveLeftRows(IF i = n.end_cy
                             THEN [e1 EXCEPT !.selection_end_cx = IF @ - 1 < 0 THEN 0 ELSE @ - 1]
                             ELSE e1, n, i + 1)

editorMoveSelectionLeft(e) ==
  IF e.selection_active = 0 THEN e
  ELSE LET n == Normalized(e)
           e1 == IF n.start_cy = n.end_cy
                 THEN IF SpaceBefore(e, n, n.start_cy)
                      THEN [editorRowDelChar(e, n.start_cy, n.start_cx - 1)
                              EXCEPT !.selection_start_cx = @ - 1,
                                     !.selection_end_cx = @ - 1]
                      ELSE e
                 ELSE MoveLeftRows(e, n, n.start_cy)
       IN  [e1 EXCEPT !.dirty = @ + 1]

RECURSIVE MoveRightRows(_, _, _)
MoveRightRows(e, n, i) ==
  IF i > n.end_cy THEN e
  ELSE IF i = n.start_cy
       THEN MoveRightRows([editorRowInsertChar(e, i, n.start_cx, " ")
                             EXCEPT !.selection_start_cx = @ + 1], n, i + 1)
       ELSE IF i = n.end_cy
       THEN MoveRightRows([editorRowInsertChar(e, i, 0, " ")
                             EXCEPT !.selection_end_cx = @ + 1], n, i + 1)
       ELSE MoveRightRows(editorRowInsertChar(e, i, 0, " "), n, i + 1)

editorMoveSelectionRight(e) ==
  IF e.selection_active = 0 THEN e
  ELSE LET n == Normalized(e)
           e1 == IF n.start_cy = n.end_cy
                 THEN [editorRowInsertChar(e, n.start_cy, n.start_cx, " ")
                         EXCEPT !.selection_start_cx = @ + 1,
                                !.selection_end_cx = @ + 1]
                 ELSE MoveRightRows(e, n, n.start_cy)
       IN  [e1 EXCEPT !.dirty = @ + 1]

\* a test that does not look at the end of the selection
editorIsSelectionFullLines_start(e) ==
  LET n == Normalized(e)
  IN  e.selection_active /= 0 /\ n.start_cx = 0

editorIsSelectionFullLines(e) ==
  LET n == Normalized(e)
  IN  /\ e.selection_active /= 0
      /\ n.start_cx = 0
      /\ n.end_cx = Len(e.row[n.end_cy + 1].chars)

\* E.row[i].idx = i; editorUpdateRow(&E.row[i]) for the rows i..last
RECURSIVE RenumberRows(_, _, _)
RenumberRows(e, i, last) ==
  IF i > last THEN e
  ELSE RenumberRows(editorUpdateRow([e EXCEPT !.row[i + 1].idx = i], i), i + 1, last)

\* the rows after the block first..last (0-based) has changed places with
\* the row above it (up) or below it
\* a move that does not store the displaced row below the block
BlockUp_alias(row, first, last) ==
  [k \in 1..Len(row) |->
     IF k - 1 >= first - 1 /\ k - 1 < last THEN row[k + 1] ELSE row[k]]

BlockUp(row, first, last) ==
  [k \in 1..Len(row) |->
     IF k - 1 >= first - 1 /\ k - 1 < last THEN row[k + 1]
     ELSE IF k - 1 = last THEN row[first]
     ELSE row[k]]

BlockDown(row, first, last) ==
  [k \in 1..Len(row) |->
     IF k - 1 = first THEN row[last + 2]
     ELSE IF k - 1 > first /\ k - 1 <= last + 1 THEN row[k - 1]
     ELSE row[k]]

editorMoveSelection(e, key) ==
  LET norm_start_cy == IF e.selection_start_cy > e.selection_end_cy
                       THEN e.selection_end_cy ELSE e.selection_start_cy
      norm_end_cy == IF e.selection_start_cy > e.selection_end_cy
                     THEN e.selection_start_cy ELSE e.selection_end_cy
  IN
  IF e.selection_active /= 0 /\ ~SelectionOk(e) THEN Fault(e)
  ELSE CASE key = "ARROW_LEFT" ->
         IF ~editorCanMoveSelectionLeft(e)
         THEN editorSetStatusMessage(e, <<"Cannot move selection left - not enough spaces">>)
         ELSE editorSetStatusMessage(editorMoveSelectionLeft(e), <<"Selection moved left">>)
    [] key = "ARROW_RIGHT" ->
         IF e.selection_active = 0
         THEN editorSetStatusMessage(e, <<"Cannot move selection right">>)
         ELSE editorSetStatusMessage(editorMoveSelectionRight(e), <<"Selection moved right">>)
    [] key = "ARROW_UP" ->
         IF ~editorIsSelectionFullLines(e)
         THEN editorSetStatusMessage(
                e, <<"Cannot move selection up - selection must be full lines">>)
         ELSE IF norm_start_cy = 0
         THEN editorSetStatusMessage(e, <<"Cannot move selection up - already at top">>)
         ELSE IF norm_end_cy >= e.numrows \/ norm_start_cy < 0 THEN e
         ELSE LET e1 == [e EXCEPT !.row = BlockUp(e.row, norm_start_cy, norm_end_cy)]
                  e2 == RenumberRows(e1, norm_start_cy - 1, norm_end_cy)
              IN  editorSetStatusMessage(
                    [e2 EXCEPT !.selection_start_cy = @ - 1, !.selection_end_cy = @ - 1,
                               !.cy = IF @ > 0 THEN @ - 1 ELSE @,
                               !.dirty = @ + 1],
                    <<"Selection moved up">>)
    [] key = "ARROW_DOWN" ->
         IF ~editorIsSelectionFullLines(e)
         THEN editorSetStatusMessage(
                e, <<"Cannot move selection down - selection must be full lines">>)
         ELSE IF norm_end_cy >= e.numrows - 1
         THEN editorSetStatusMessage(e, <<"Cannot move selection down - already at bottom">>)
         ELSE IF norm_start_cy < 0 \/ norm_end_cy + 1 >= e.numrows THEN e
         ELSE LET e1 == [e EXCEPT !.row = BlockDown(e.row, norm_start_cy, norm_end_cy)]
                  e2 == RenumberRows(e1, norm_start_cy, norm_end_cy + 1)
              IN  editorSetStatusMessage(
                    [e2 EXCEPT !.selection_start_cy = @ + 1, !.selection_end_cy = @ + 1,
                               !.cy = IF @ < e.numrows - 1 THEN @ + 1 ELSE @,
                               !.dirty = @ + 1],
                    <<"Selection moved down">>)
    [] OTHER -> e

(* ----------------------------- quick select -------------------------- *)

\* direction is -1 (SHIFT_UP) or 1 (SHIFT_DOWN)
editorQuickSelectFullLine(e, direction) ==
  IF e.cy >= e.numrows THEN editorSetStatusMessage(e, <<"No line to select">>)
  ELSE IF ~RowOk(e, e.cy) THEN Fault(e)
  ELSE
    LET e1 == IF e.selection_active = 0
              THEN [e EXCEPT !.selection_start_cx = 0, !.selection_start_cy = e.cy,
                             !.selection_end_cx = Len(e.row[e.cy + 1].chars),
                             !.selection_end_cy = e.cy,
                             !.selection_active = 1]
              ELSE e
    IN  IF direction = -1 /\ ~(e1.cy > 0)
        THEN editorSetStatusMessage(e1, <<"Cannot move up - at beginning of file">>)
        ELSE IF direction /= -1 /\ ~(e1.cy < e1.numrows - 1)
        THEN editorSetStatusMessage(e1, <<"Cannot move down - at end of file">>)
        ELSE LET cy == IF direction = -1 THEN e1.cy - 1 ELSE e1.cy + 1
                 e2 == [e1 EXCEPT !.cy = cy, !.cx = 0,
                                  !.selection_end_cx = Len(e1.row[cy + 1].chars),
                                  !.selection_end_cy = cy]
             IN  IF e2.selection_start_cy = e2.selection_end_cy
                 THEN editorSetStatusMessage(
                        [editorDeselectSelection(e2) EXCEPT !.mode = NORMAL_MODE],
                        <<"Selection cleared">>)
                 ELSE editorSetStatusMessage(e2, <<"Selected: lines">>)

\* a step that does not leave the row at its start
QuickCharMove_nowrap(e, direction) ==
  IF direction = -1
  THEN IF e.cx > 0 THEN [e EXCEPT !.cx = @ - 1] ELSE e
  ELSE IF e.cx < Len(e.row[e.cy + 1].chars) THEN [e EXCEPT !.cx = @ + 1]
       ELSE IF e.cy < e.numrows - 1 THEN [e EXCEPT !.cy = @ + 1, !.cx = 0]
       ELSE e

\* the step of the cursor in editorQuickSelectChar
QuickCharMove(e, direction) ==
  IF direction = -1
  THEN IF e.cx > 0 THEN [e EXCEPT !.cx = @ - 1]
       ELSE IF e.cy > 0 THEN [e EXCEPT !.cy = @ - 1, !.cx = Len(e.row[e.cy].chars)]
       ELSE e
  ELSE IF e.cx < Len(e.row[e.cy + 1].chars) THEN [e EXCEPT !.cx = @ + 1]
       ELSE IF e.cy < e.numrows - 1 THEN [e EXCEPT !.cy = @ + 1, !.cx = 0]
       ELSE e

\* direction is -1 (SHIFT_LEFT) or 1 (SHIFT_RIGHT)
editorQuickSelectChar(e, direction) ==
  IF e.cy >= e.numrows THEN editorSetStatusMessage(e, <<"No text to select">>)
  ELSE IF ~RowOk(e, e.cy) THEN Fault(e)
  ELSE
    LET e1 == IF e.selection_active = 0
              THEN [e EXCEPT !.selection_start_cx = e.cx, !.selection_start_cy = e.cy,
                             !.selection_active = 1]
              ELSE e
        e2 == QuickCharMove(e1, direction)
        e3 == [e2 EXCEPT !.selection_end_cx = e2.cx, !.selection_end_cy = e2.cy]
    IN  IF e3.selection_start_cy = e3.selection_end_cy
           /\ e3.selection_start_cx = e3.selection_end_cx
        THEN editorSetStatusMessage(
               [editorDeselectSelection(e3) EXCEPT !.mode = NORMAL_MODE],
               <<"Selection cleared">>)
        ELSE editorSetStatusMessage(e3, <<"Selection active">>)

(* ------------------------------ undo/redo ---------------------------- *)

editorCopyCurrentState(e, description) ==
  [rows |-> e.row, numrows |-> e.numrows,
   cx |-> e.cx, cy |-> e.cy,
   selection_active |-> e.selection_active,
   selection_start_cx |-> e.selection_start_cx,
   selection_start_cy |-> e.selection_start_cy,
   selection_end_cx |-> e.selection_end_cx,
   selection_end_cy |-> e.selection_end_cy,
   description |-> description]

editorRestoreSnapshot(e, snap) ==
  [e EXCEPT !.row = snap.rows, !.numrows = snap.numrows,
            !.cx = snap.cx, !.cy = snap.cy,
            !.selection_active = snap.selection_active,
            !.selection_start_cx = snap.selection_start_cx,
            !.selection_start_cy = snap.selection_start_cy,
            !.selection_end_cx = snap.selection_end_cx,
            !.selection_end_cy = snap.selection_end_cy,
            !.dirty = @ + 1]

\* the snapshot was taken less than a second ago
Debounced(u, t) == t - u.last_snapshot_time < 1 /\ u.current /= 0

\* a capture that keeps the snapshots after `current' behind the new one
LinkAfterCurrent_keep(u, snap) ==
  IF u.current /= 0
  THEN [u EXCEPT !.snaps = Append(Prefix(u.snaps, u.current), snap)
                             \o Suffix(u.snaps, u.current)]
  ELSE [u EXCEPT !.snaps = <<snap>>]

\* link snap after `current', freeing every snapshot that followed it
LinkAfterCurrent(u, snap) ==
  IF u.current /= 0
  THEN [u EXCEPT !.snaps = Append(Prefix(u.snaps, u.current), snap),
                 !.current_count = @ - (Len(u.snaps) - u.current)]
  ELSE [u EXCEPT !.snaps = <<snap>>]

\* a history that never evicts
EvictOldest_never(u) == u

\* an eviction that forgets to decrement current_count
EvictOldest_keepcount(u) ==
  IF u.current_count > u.max_snapshots
  THEN [u EXCEPT !.snaps = Tail(u.snaps), !.current = @ - 1]
  ELSE u

\* drop the head of the chain once the count exceeds the capacity
EvictOldest(u) ==
  IF u.current_count > u.max_snapshots
  THEN [u EXCEPT !.snaps = Tail(u.snaps),
                 !.current = @ - 1,
                 !.current_count = @ - 1]
  ELSE u

editorCreateSnapshot(e, t, description) ==
  IF Debounced(e.undo_system, t) THEN e
  ELSE LET snap == editorCopyCurrentState(e, description)
           u1 == LinkAfterCurrent(e.undo_system, snap)
           u2 == [u1 EXCEPT !.current = IF e.undo_system.current /= 0
                                        THEN e.undo_system.current + 1 ELSE 1,
                            !.current_count = @ + 1,
                            !.last_snapshot_time = t]
       IN  [e EXCEPT !.undo_system = EvictOldest(u2)]

\* a load that keeps the history of the previous document
editorClearUndoSystem_keep(e) == e

editorClearUndoSystem(e) ==
  [e EXCEPT !.undo_system.snaps = <<>>,
            !.undo_system.current = 0,
            !.undo_system.current_count = 0,
            !.undo_system.last_snapshot_time = 0]

\* !E.undo_system.current || !E.undo_system.current->prev
NoPrev(u) == u.current = 0 \/ u.current = 1

\* !E.undo_system.current || !E.undo_system.current->next
NoNext(u) == u.current = 0 \/ u.current = Len(u.snaps)

\* an undo that, with no previous snapshot, restores the current one
editorUndo_clamp(e) ==
  IF e.undo_system.current = 0 THEN editorSetStatusMessage(e, <<"Nothing to undo">>)
  ELSE LET e1 == [e EXCEPT !.undo_system.current = IF @ > 1 THEN @ - 1 ELSE @]
           snap == e1.undo_system.snaps[e1.undo_system.current]
       IN  editorSetStatusMessage(editorRestoreSnapshot(e1, snap),
                                  <<"Undo: ", snap.description>>)

editorUndo(e) ==
  IF NoPrev(e.undo_system) THEN editorSetStatusMessage(e, <<"Nothing to undo">>)
  ELSE LET e1 == [e EXCEPT !.undo_system.current = @ - 1]
           snap == e1.undo_system.snaps[e1.undo_system.current]
       IN  editorSetStatusMessage(editorRestoreSnapshot(e1, snap),
                                  <<"Undo: ", snap.description>>)

editorRedo(e) ==
  IF NoNext(e.undo_system) THEN editorSetStatusMessage(e, <<"Nothing to redo">>)
  ELSE LET e1 == [e EXCEPT !.undo_system.current = @ + 1]
           snap == e1.undo_system.snaps[e1.undo_system.current]
       IN  editorSetStatusMessage(editorRestoreSnapshot(e1, snap),
                                  <<"Redo: ", snap.description>>)

(* ------------------------------ file i/o ----------------------------- *)

\* editorSave as far as the engine sees it: the write succeeds (dirty is
\* cleared) or it is cancelled or fails (dirty is kept)
editorSave(e, saved) ==
  IF saved THEN editorSetStatusMessage([e EXCEPT !.dirty = 0], <<"bytes written to disk">>)
  ELSE editorSetStatusMessage(e, <<"Can't save! I/O error">>)

\* answer is the key the user gives to the prompt: "save_ok" and "save_fail"
\* are Ctrl-S with the two outcomes of editorSave, then ESC and Ctrl-D
editorAskToSave(e, answer) ==
  IF e.dirty = 0 THEN [e |-> e, ok |-> TRUE]
  ELSE CASE answer = "save_ok" -> [e |-> editorSave(e, TRUE), ok |-> TRUE]
         [] answer = "save_fail" -> [e |-> editorSave(e, FALSE), ok |-> FALSE]
         [] answer = "esc" -> [e |-> editorSetStatusMessage(e, <<"Save aborted.">>), ok |-> FALSE]
         [] OTHER -> [e |-> editorSetStatusMessage(e, <<"Changes discarded.">>), ok |-> TRUE]

RECURSIVE LoadLines(_, _, _)
LoadLines(e0, lines, i) ==
  Bind(e0, LAMBDA e :
    IF i > Len(lines) THEN e
    ELSE LoadLines(editorInsertRow(e, e.numrows, lines[i]), lines, i + 1))

\* file.kind is "error" (fopen fails, not ENOENT), "missing" (ENOENT) or
\* "lines" (the file exists and holds file.lines); file.syntax is what
\* editorSelectSyntaxHighlight finds for the extension of the file name
editorOpen(e, file, answer) ==
  IF file.kind = "error"
  THEN editorSetStatusMessage(e, <<"Error: Could not open file">>)
  ELSE LET a == editorAskToSave(e, answer)
       IN  IF ~a.ok THEN a.e
           ELSE LET e1 == [a.e EXCEPT !.row = <<>>, !.numrows = 0, !.cx = 0, !.cy = 0,
                                      !.syntax = file.syntax]
                    e2 == editorClearUndoSystem(e1)
                IN  IF file.kind = "lines"
                    THEN editorSetStatusMessage(
                           [LoadLines(e2, file.lines, 1) EXCEPT !.dirty = 0],
                           <<"opened.">>)
                    ELSE editorSetStatusMessage([e2 EXCEPT !.dirty = 0], <<"New file: ">>)

editorNewFile(e, answer) ==
  LET a == editorAskToSave(e, answer)
  IN  IF e.dirty /= 0 /\ ~a.ok
      THEN editorSetStatusMessage(a.e, <<"New file aborted.">>)
      ELSE LET e1 == [a.e EXCEPT !.row = <<>>, !.numrows = 0, !.cx = 0, !.cy = 0,
                                 !.syntax = <<>>, !.dirty = 0]
           IN  editorSetStatusMessage(editorClearUndoSystem(e1),
                                      <<"New empty file. Ctrl-S to save.">>)

(* --------------------- editorProcessKeypress, per key ----------------- *)

\* Each operator is the path of editorProcessKeypress for one key read by
\* editorReadKey, in SELECTION_MODE and in NORMAL_MODE; t is the value of
\* time(NULL) during the call.  A key with no case in the switch of the
\* current mode leaves E unchanged.

OnEnter(e, t) ==
  IF e.mode = SELECTION_MODE THEN e
  ELSE editorInsertNewline(editorCreateSnapshot(e, t, "Insert newline"))

OnTab(e) ==
  IF e.mode = SELECTION_MODE THEN editorIndentSelection(e)
  ELSE editorInsertChar(editorInsertChar(editorInsertChar(editorInsertChar(e, " "), " "), " "), " ")

RECURSIVE OutdentRow(_, _)
OutdentRow(e, n) ==
  IF n = 0 THEN e
  ELSE IF Len(e.row[e.cy + 1].chars) > 0 /\ e.row[e.cy + 1].chars[1] = " "
       THEN OutdentRow(editorRowDelChar(e, e.cy, 0), n - 1)
       ELSE OutdentRow(e, n - 1)

\* BACKSPACE (in NORMAL_MODE also Ctrl-H)
OnBackspace(e, t) ==
  IF e.mode = SELECTION_MODE THEN editorUnindentSelection(e)
  ELSE LET first_ns == IF e.cy < e.numrows THEN LeadingSpaces(e.row[e.cy + 1].chars, 0) ELSE 0
           target == ((first_ns - 1) \div WEE_TAB_STOP) * WEE_TAB_STOP
       IN  IF e.cy < e.numrows /\ e.cx = first_ns /\ first_ns > 0
           THEN [OutdentRow(e, first_ns - target) EXCEPT !.cx = target, !.dirty = @ + 1]
           ELSE editorDelChar(editorCreateSnapshot(e, t, "Delete character"))

OnDelKey(e, t) ==
  IF e.mode = SELECTION_MODE
  THEN editorSetStatusMessage(
         [editorDelCharSelection(editorCreateSnapshot(e, t, "Delete selection"))
            EXCEPT !.mode = NORMAL_MODE],
         <<"Selection deleted.">>)
  ELSE editorDelChar(editorMoveCursor(editorCreateSnapshot(e, t, "Delete character"),
                                      "ARROW_RIGHT"))

OnCtrlK(e, t) ==
  IF e.mode = SELECTION_MODE \/ e.selection_active /= 0
  THEN editorSetStatusMessage(
         [editorCutSelection(editorCreateSnapshot(e, t, "Cut selection"))
            EXCEPT !.mode = NORMAL_MODE],
         <<"Selection cut.">>)
  ELSE editorCutLine(editorCreateSnapshot(
         editorSetStatusMessage(e, <<"Mode: NORMAL_MODE. No selection active. Cutting line.">>),
         t, "Cut line"))

OnCtrlW(e) ==
  IF e.mode = SELECTION_MODE
  THEN [editorCopySelection(e) EXCEPT !.mode = NORMAL_MODE]
  ELSE editorCopyLine(e)

OnCtrlU(e, t) ==
  IF e.mode = SELECTION_MODE THEN e
  ELSE editorPaste(editorCreateSnapshot(e, t, "Paste"))

OnCtrlZ(e) == IF e.mode = SELECTION_MODE THEN e ELSE editorUndo(e)

OnCtrlR(e) == IF e.mode = SELECTION_MODE THEN e ELSE editorRedo(e)

OnCtrlT(e, answer) == IF e.mode = SELECTION_MODE THEN e ELSE editorNewFile(e, answer)

\* file.kind = "cancel": editorFileBrowser returns no path
OnCtrlO(e, file, answer) ==
  IF e.mode = SELECTION_MODE \/ file.kind = "cancel" THEN e
  ELSE editorOpen(e, file, answer)

\* the arrow keys: they move the selected block in SELECTION_MODE
OnArrow(e, key) ==
  IF e.mode = SELECTION_MODE THEN editorMoveSelection(e, key) ELSE editorMoveCursor(e, key)

\* SHIFT_UP, SHIFT_DOWN, SHIFT_LEFT, SHIFT_RIGHT: cases of NORMAL_MODE only
OnShift(e, key) ==
  IF e.mode = SELECTION_MODE THEN e
  ELSE IF key = "SHIFT_UP" THEN editorQuickSelectFullLine(e, -1)
  ELSE IF key = "SHIFT_DOWN" THEN editorQuickSelectFullLine(e, 1)
  ELSE IF key = "SHIFT_LEFT" THEN editorQuickSelectChar(e, -1)
  ELSE editorQuickSelectChar(e, 1)

OnEsc(e) ==
  IF e.mode = SELECTION_MODE
  THEN editorSetStatusMessage([editorDeselectSelection(e) EXCEPT !.mode = NORMAL_MODE],
                              <<"Selection cancelled.">>)
  ELSE IF e.selection_active /= 0
       THEN editorSetStatusMessage([e EXCEPT !.mode = SELECTION_MODE],
                                   <<"Entered SELECTION_MODE. Selection ready for operations.">>)
       ELSE e

OnCtrlB(e) ==
  IF e.mode = SELECTION_MODE THEN e
  ELSE editorSetStatusMessage(
         [e EXCEPT !.selection_start_cx = e.cx, !.selection_start_cy = e.cy,
                   !.selection_end_cx = e.cx, !.selection_end_cy = e.cy,
                   !.selection_active = 1],
         <<"Selection start set">>)

OnCtrlE(e) ==
  IF e.mode = SELECTION_MODE THEN e
  ELSE editorSetStatusMessage(
         [e EXCEPT !.selection_end_cx = e.cx, !.selection_end_cy = e.cy,
                   !.mode = SELECTION_MODE],
         <<"Selection end set. Entering SELECTION_MODE.">>)

OnCtrlA(e) ==
  IF e.mode = SELECTION_MODE THEN e
  ELSE IF e.numrows > 0
       THEN editorSetStatusMessage(
              [e EXCEPT !.selection_start_cx = 0, !.selection_start_cy = 0,
                        !.selection_end_cx = Len(e.row[e.numrows].chars),
                        !.selection_end_cy = e.numrows - 1,
                        !.selection_active = 1, !.mode = SELECTION_MODE],
              <<"All text selected.">>)
       ELSE editorSetStatusMessage(e, <<"No text to select.">>)

\* a typing session that ends after one idle second
OnChar_short(e, c, t, ltt) ==
  IF e.mode = SELECTION_MODE \/ e.selection_active /= 0
  THEN LET e1 == editorInsertChar(
                   editorDelCharSelection(editorCreateSnapshot(e, t, "Replace selection")), c)
       IN  [e |-> IF e.mode = SELECTION_MODE
                  THEN editorSetStatusMessage([e1 EXCEPT !.mode = NORMAL_MODE], <<"">>)
                  ELSE [e1 EXCEPT !.mode = NORMAL_MODE],
            ltt |-> ltt]
  ELSE [e |-> editorInsertChar(
                IF t - ltt > 1 THEN editorCreateSnapshot(e, t, "Typing") ELSE e, c),
        ltt |-> t]

\* a printable ASCII character c; ltt is the static last_typing_time.  The
\* result carries the new value of last_typing_time.
OnChar(e, c, t, ltt) ==
  IF e.mode = SELECTION_MODE \/ e.selection_active /= 0
  THEN LET e1 == editorInsertChar(
                   editorDelCharSelection(editorCreateSnapshot(e, t, "Replace selection")), c)
       IN  [e |-> IF e.mode = SELECTION_MODE
                  THEN editorSetStatusMessage([e1 EXCEPT !.mode = NORMAL_MODE], <<"">>)
                  ELSE [e1 EXCEPT !.mode = NORMAL_MODE],
            ltt |-> ltt]
  ELSE [e |-> editorInsertChar(
                IF t - ltt > 2 THEN editorCreateSnapshot(e, t, "Typing") ELSE e, c),
        ltt |-> t]

\* Ctrl-Q with quit_times = qt: a warning that exists only before the last press
QuitWarns_once(e, qt) == e.dirty /= 0 /\ qt > 1

\* Ctrl-Q with quit_times = qt: E.dirty && quit_times > 0
QuitWarns(e, qt) == e.dirty /= 0 /\ qt > 0

(* ------------------------- construction, inputs ----------------------- *)

initEditor ==
  [cx |-> 0, cy |-> 0, numrows |-> 0, row |-> <<>>, dirty |-> 0,
   clipboard |-> <<>>, clipboard_len |-> 0,
   selection_start_cx |-> -1, selection_start_cy |-> -1,
   selection_end_cx |-> -1, selection_end_cy |-> -1,
   selection_active |-> 0, mode |-> NORMAL_MODE,
   undo_system |-> [snaps |-> <<>>, current |-> 0,
                    max_snapshots |-> MAX_SNAPSHOTS,
                    current_count |-> 0, last_snapshot_time |-> 0],
   syntax |-> <<>>, statusmsg |-> <<"">>, ub |-> FALSE]

NoFile == [kind |-> "none", syntax |-> <<>>, lines |-> <<>>]

FileAbcDef == [kind |-> "lines", syntax |-> <<>>, lines |-> << <<"a", "b", "c">>, <<"d", "e", "f">> >>]

FileIndented == [kind |-> "lines", syntax |-> <<>>, lines |-> << <<" ", " ", "a">> >>]

\* a row of two letters and a row of one
FileAbC == [kind |-> "lines", syntax |-> <<>>, lines |-> << <<"a", "b">>, <<"c">> >>]

\* an indented row above one that is not
FileMixed == [kind |-> "lines", syntax |-> <<>>, lines |-> << <<" ", "a">>, <<"b">> >>]

\* two indented rows and one that is not
FileBlock == [kind |-> "lines", syntax |-> <<>>,
              lines |-> << <<" ", "a">>, <<" ", "b">>, <<"c">> >>]

\* a syntax file of a C-like language
CSyntax ==
  [scs |-> <<"/", "/">>, mcs |-> <<"/", "*">>, mce |-> <<"*", "/">>,
   keywords |-> << <<"i", "f">>, <<"i", "n", "t", "|">> >>,
   flags |-> {"HL_HIGHLIGHT_NUMBERS", "HL_HIGHLIGHT_STRINGS"}]

\* a comment opened on row 0 and closed on row 2, then a row of code
FileComment ==
  [kind |-> "lines", syntax |-> <<CSyntax>>,
   lines |-> << <<"/", "*">>, <<"a">>, <<"*", "/">>, <<"b">> >>]

\* text in front of a comment that stays open, then a row inside it
FileOpenComment ==
  [kind |-> "lines", syntax |-> <<CSyntax>>,
   lines |-> << <<"a", "/", "*">>, <<"b">> >>]

\* keywords, a number, a string and a single-line comment
FileCode ==
  [kind |-> "lines", syntax |-> <<CSyntax>>,
   lines |-> << <<"i", "f", " ", "1">>, <<"i", "n", "t", " ", "\"", "s", "\"">>, <<"/", "/">> >>]

\* a row that starts with a tab, then an empty row
FileTabbed == [kind |-> "lines", syntax |-> <<>>, lines |-> << <<"\t", "b">>, <<>> >>]

FileMissing == [kind |-> "missing", syntax |-> <<>>, lines |-> <<>>]

FileError == [kind |-> "error", syntax |-> <<>>, lines |-> <<>>]

FileCancel == [kind |-> "cancel", syntax |-> <<>>, lines |-> <<>>]

\* main: initEditor, then editorOpen(argv[1]) when a file name is given
Start(file) ==
  IF file.kind = "none"
  THEN editorSetStatusMessage(initEditor, <<"HELP: Ctrl-G = show help">>)
  ELSE editorOpen(initEditor, file, "discard")

Answers == {"save_ok", "save_fail", "esc", "discard"}

\* What a handler that ran into undefined behaviour may leave behind: the
\* process is killed with the state as it was, or it goes on with a
\* document read from memory that is not a row (any small document).
Outcomes(e, res) ==
  IF res.ub
  THEN {Fault(e)} \cup {[Fault(res) EXCEPT !.row = d, !.numrows = Len(d), !.cx = 0, !.cy = 0] :
                          d \in {<<>>, <<[NewRow(0, <<"?">>) EXCEPT !.render = <<"?">>,
                                                                   !.hl = <<"HL_NORMAL">>]>>}}
  ELSE {res}

\* the key pressed last ("NONE" before the first) and its run length
LastKey == IF log = <<>> THEN "NONE" ELSE log[Len(log)].key

LastRun == IF log = <<>> THEN 0 ELSE log[Len(log)].run

\* the log after a keypress: the last two keys, each with the input that
\* came with it (arg), the state before it and the number of times the key
\* has now been pressed in a row
Logged(key, arg) ==
  LET run == IF LastKey = key THEN LastRun + 1 ELSE 1
  IN  (IF Len(log) = 2 THEN <<log[2]>> ELSE log)
      \o <<[key |-> key, arg |-> arg, pre |-> E, run |-> run]>>

\* one pass of the main loop: the key read at time t leaves res; counted is
\* 1 when the key counts against the bound of the specification
Step(key, arg, t, res, ltt, counted) ==
  /\ ~E.ub
  /\ ~exited
  /\ E' \in Outcomes(E, res)
  /\ now' = t
  /\ last_typing_time' = ltt
  /\ quit_times' = WEE_QUIT_TIMES
  /\ exited' = FALSE
  /\ nkeys' = nkeys + counted
  /\ log' = Logged(key, arg)

InitWith(files) ==
  /\ E \in {Start(f) : f \in files}
  /\ now = StartTime
  /\ last_typing_time = 0
  /\ quit_times = WEE_QUIT_TIMES
  /\ exited = FALSE
  /\ nkeys = 0
  /\ log = <<>>

(* ------------------------------- actions ------------------------------ *)

\* D is the set of waiting times (seconds) before the key, N the number of
\* keypresses the specification explores.

KeyChar(D, N, C) ==
  \E dt \in D, c \in C :
    /\ nkeys < N
    /\ LET r == OnChar(E, c, now + dt, last_typing_time)
       IN  Step("CHAR", c, now + dt, r.e, r.ltt, 1)

KeyEnter(D, N) ==
  \E dt \in D : nkeys < N /\ Step("ENTER", "", now + dt, OnEnter(E, now + dt), last_typing_time, 1)

KeyTab(D, N) ==
  \E dt \in D : nkeys < N /\ Step("TAB", "", now + dt, OnTab(E), last_typing_time, 1)

KeyBackspace(D, N) ==
  \E dt \in D : nkeys < N /\ Step("BACKSPACE", "", now + dt, OnBackspace(E, now + dt), last_typing_time, 1)

KeyDel(D, N) ==
  \E dt \in D : nkeys < N /\ Step("DEL_KEY", "", now + dt, OnDelKey(E, now + dt), last_typing_time, 1)

KeyCtrlK(D, N) ==
  \E dt \in D : nkeys < N /\ Step("CTRL_K", "", now + dt, OnCtrlK(E, now + dt), last_typing_time, 1)

KeyCtrlW(D, N) ==
  \E dt \in D : nkeys < N /\ Step("CTRL_W", "", now + dt, OnCtrlW(E), last_typing_time, 1)

KeyCtrlU(D, N) ==
  \E dt \in D : nkeys < N /\ Step("CTRL_U", "", now + dt, OnCtrlU(E, now + dt), last_typing_time, 1)

KeyCtrlZ(D, N) ==
  \E dt \in D : nkeys < N /\ Step("CTRL_Z", "", now + dt, OnCtrlZ(E), last_typing_time, 1)

KeyCtrlR(D, N) ==
  \E dt \in D : nkeys < N /\ Step("CTRL_R", "", now + dt, OnCtrlR(E), last_typing_time, 1)

KeyCtrlT(D, N) ==
  \E dt \in D, answer \in (IF E.dirty = 0 THEN {"discard"} ELSE Answers) :
    nkeys < N /\ Step("CTRL_T", [file |-> NoFile, answer |-> answer], now + dt, OnCtrlT(E, answer), last_typing_time, 1)

KeyCtrlO(D, N, files) ==
  \E dt \in D, file \in files, answer \in (IF E.dirty = 0 THEN {"discard"} ELSE Answers) :
    nkeys < N /\ Step("CTRL_O", [file |-> file, answer |-> answer], now + dt, OnCtrlO(E, file, answer), last_typing_time, 1)

KeyArrow(D, N, keys) ==
  \E dt \in D, key \in keys :
    /\ nkeys < N
    /\ Step(key, "", now + dt, OnArrow(E, key), last_typing_time, 1)

KeyShift(D, N, keys) ==
  \E dt \in D, key \in keys :
    /\ nkeys < N
    /\ Step(key, "", now + dt, OnShift(E, key), last_typing_time, 1)

KeyEsc(D, N) ==
  \E dt \in D : nkeys < N /\ Step("ESC", "", now + dt, OnEsc(E), last_typing_time, 1)

KeyCtrlB(D, N) ==
  \E dt \in D : nkeys < N /\ Step("CTRL_B", "", now + dt, OnCtrlB(E), last_typing_time, 1)

KeyCtrlE(D, N) ==
  \E dt \in D : nkeys < N /\ Step("CTRL_E", "", now + dt, OnCtrlE(E), last_typing_time, 1)

KeyCtrlA(D, N) ==
  \E dt \in D : nkeys < N /\ Step("CTRL_A", "", now + dt, OnCtrlA(E), last_typing_time, 1)

\* the user of the capacity scenario: Enter once a second, and no further
\* edit once an undo has been requested
CapEnter ==
  /\ nkeys < MAX_SNAPSHOTS + CapExtra
  /\ LastKey \in {"NONE", "ENTER"}
  /\ Step("ENTER", "", now + 1, OnEnter(E, now + 1), last_typing_time, 1)

CapUndo ==
  /\ (LastKey = "CTRL_Z" => LastRun < MAX_SNAPSHOTS + CapExtra)
  /\ Step("CTRL_Z", "", now, OnCtrlZ(E), last_typing_time, 0)

\* Direct calls of the row functions and of the split and join operations,
\* on the row under the cursor.  The position argument is the cursor column.

CallCxToRx ==
  /\ nkeys < RowCalls
  /\ PosOk(E, E.cy, E.cx)
  /\ Step("CX_TO_RX", [cx |-> E.cx, rx |-> editorRowCxToRx(E.row[E.cy + 1], E.cx)],
          now, E, last_typing_time, 1)

\* the render column that editorRowCxToRx has just returned is converted back
CallRxToCx ==
  /\ nkeys < RowCalls
  /\ LastKey = "CX_TO_RX"
  /\ LET rx == log[Len(log)].arg.rx
     IN  Step("RX_TO_CX", [rx |-> rx, cx |-> editorRowRxToCx(E.row[E.cy + 1], rx)],
              now, E, last_typing_time, 1)

CallRowInsertChar(C) ==
  \E c \in C :
    /\ nkeys < RowCalls
    /\ PosOk(E, E.cy, E.cx)
    /\ Step("ROW_INSERT", [at |-> E.cx, c |-> c], now,
            editorRowInsertChar(E, E.cy, E.cx, c), last_typing_time, 1)

CallRowDelChar ==
  /\ nkeys < RowCalls
  /\ PosOk(E, E.cy, E.cx)
  /\ Step("ROW_DEL", [at |-> E.cx], now, editorRowDelChar(E, E.cy, E.cx), last_typing_time, 1)

CallInsertNewline ==
  /\ nkeys < RowCalls
  /\ Step("NEWLINE", "", now, editorInsertNewline(E), last_typing_time, 1)

\* editorDelChar with the cursor at column 0 of its row (HOME_KEY puts it there)
CallDelCharAtColumn0 ==
  /\ nkeys < RowCalls
  /\ Step("JOIN", "", now, editorDelChar([E EXCEPT !.cx = 0]), last_typing_time, 1)

\* Direct calls of the four operations of the row store, with positions from
\* PosSlack below the first valid one to PosSlack above the last.

StoreInsertRow(S) ==
  \E at \in (0 - PosSlack)..(E.numrows + PosSlack), s \in S :
    /\ nkeys < StoreCalls
    /\ Step("INSERT_ROW", [r |-> 0, at |-> at, c |-> s], now,
            editorInsertRow(E, at, s), last_typing_time, 1)

StoreDelRow ==
  \E at \in (0 - PosSlack)..(E.numrows + PosSlack) :
    /\ nkeys < StoreCalls
    /\ Step("DEL_ROW", [r |-> 0, at |-> at, c |-> <<>>], now,
            editorDelRow(E, at), last_typing_time, 1)

StoreRowInsertChar(C) ==
  \E r \in 0..(E.numrows - 1), c \in C :
    \E at \in (0 - PosSlack)..(Len(E.row[r + 1].chars) + PosSlack) :
      /\ nkeys < StoreCalls
      /\ Step("ROW_INSERT", [r |-> r, at |-> at, c |-> <<c>>], now,
              editorRowInsertChar(E, r, at, c), last_typing_time, 1)

StoreRowDelChar ==
  \E r \in 0..(E.numrows - 1) :
    \E at \in (0 - PosSlack)..(Len(E.row[r + 1].chars) + PosSlack) :
      /\ nkeys < StoreCalls
      /\ Step("ROW_DEL", [r |-> r, at |-> at, c |-> <<>>], now,
              editorRowDelChar(E, r, at), last_typing_time, 1)

\* a printable character, logged with the time it is read at and the value
\* last_typing_time has when it is read
KeyTyped(D, N, C) ==
  \E dt \in D, c \in C :
    /\ nkeys < N
    /\ LET r == OnChar(E, c, now + dt, last_typing_time)
       IN  Step("TYPED", [c |-> c, at |-> now + dt, ltt |-> last_typing_time],
                now + dt, r.e, r.ltt, 1)

\* Ctrl-Q: ignored in SELECTION_MODE; in NORMAL_MODE a warning that counts
\* quit_times down and returns before the reset, or exit(0)
KeyCtrlQ(D, N) ==
  \E dt \in D :
    LET selecting == E.mode = SELECTION_MODE
        warns == ~selecting /\ QuitWarns(E, quit_times)
    IN  /\ nkeys < N
        /\ ~E.ub
        /\ ~exited
        /\ E' = IF warns
                THEN editorSetStatusMessage(
                       E, <<"WARNING!!! File has unsaved changes. Press Ctrl-Q %d more times to quit.",
                            quit_times>>)
                ELSE E
        /\ quit_times' = IF warns THEN quit_times - 1
                         ELSE IF selecting THEN WEE_QUIT_TIMES ELSE quit_times
        /\ exited' = (~selecting /\ ~warns)
        /\ now' = now + dt
        /\ last_typing_time' = last_typing_time
        /\ nkeys' = nkeys + 1
        /\ log' = Logged("CTRL_Q", "")

(* ---------------------------- specifications -------------------------- *)

\* Every key of the model, a few keypresses deep.
Init == InitWith({NoFile, FileIndented})

Next ==
  \/ KeyChar({0, 3}, MaxKeys, {"x"})
  \/ KeyChar({0}, MaxKeys, {"("})
  \/ KeyEnter({0, 1}, MaxKeys)
  \/ KeyTab({0}, MaxKeys)
  \/ KeyBackspace({0}, MaxKeys)
  \/ KeyDel({1}, MaxKeys)
  \/ KeyCtrlK({1}, MaxKeys)
  \/ KeyCtrlW({0}, MaxKeys)
  \/ KeyCtrlU({1}, MaxKeys)
  \/ KeyCtrlZ({0}, MaxKeys)
  \/ KeyCtrlR({0}, MaxKeys)
  \/ KeyCtrlT({0}, MaxKeys)
  \/ KeyCtrlO({0}, MaxKeys, {FileAbcDef, FileCancel})
  \/ KeyArrow({0}, MaxKeys, {"ARROW_LEFT", "ARROW_RIGHT", "ARROW_UP", "ARROW_DOWN"})
  \/ KeyEsc({0}, MaxKeys)
  \/ KeyCtrlB({0}, MaxKeys)
  \/ KeyCtrlE({0}, MaxKeys)
  \/ KeyCtrlA({0}, MaxKeys)

Spec == Init /\ [][Next]_vars

\* History: edits with and without a snapshot, undo and redo.
InitUndo == InitWith({NoFile, FileIndented})

NextUndo ==
  \/ KeyChar({0, 3}, UndoKeys, {"x"})
  \/ KeyEnter({0, 1}, UndoKeys)
  \/ KeyTab({0}, UndoKeys)
  \/ KeyCtrlZ({0}, UndoKeys)
  \/ KeyCtrlR({0}, UndoKeys)

SpecUndo == InitUndo /\ [][NextUndo]_vars

\* File loads: a document with history and a selection is replaced.
InitFile == InitWith({NoFile, FileIndented})

NextFile ==
  \/ KeyEnter({1}, FileKeys)
  \/ KeyCtrlB({0}, FileKeys)
  \/ KeyCtrlZ({0}, FileKeys)
  \/ KeyCtrlR({0}, FileKeys)
  \/ KeyCtrlT({0}, FileKeys)
  \/ KeyCtrlO({0}, FileKeys, {FileAbcDef, FileMissing, FileError, FileCancel})

SpecFile == InitFile /\ [][NextFile]_vars

\* Selection: mark a range with Ctrl-B / Ctrl-E, delete it, undo.
InitSel == InitWith({FileAbcDef})

NextSel ==
  \/ KeyArrow({0}, SelKeys, {"ARROW_RIGHT", "ARROW_DOWN"})
  \/ KeyCtrlB({0}, SelKeys)
  \/ KeyCtrlE({0}, SelKeys)
  \/ KeyDel({1}, SelKeys)
  \/ KeyCtrlZ({0}, SelKeys)

SpecSel == InitSel /\ [][NextSel]_vars

\* Capacity: more edits than the history holds, then undo.
InitCap == InitWith({NoFile})

NextCap == CapEnter \/ CapUndo

SpecCap == InitCap /\ [][NextCap]_vars

\* Editing: every edit key, block moves, undo and redo on a small document.
InitEdit == InitWith({FileTabbed})

NextEdit ==
  \/ KeyChar({0}, EditDepth, {"x"})
  \/ KeyEnter({1}, EditDepth)
  \/ KeyTab({0}, EditDepth)
  \/ KeyBackspace({0}, EditDepth)
  \/ KeyDel({1}, EditDepth)
  \/ KeyCtrlK({1}, EditDepth)
  \/ KeyCtrlU({1}, EditDepth)
  \/ KeyCtrlZ({0}, EditDepth)
  \/ KeyCtrlR({0}, EditDepth)
  \/ KeyCtrlB({0}, EditDepth)
  \/ KeyCtrlE({0}, EditDepth)
  \/ KeyArrow({0}, EditDepth, {"ARROW_LEFT", "ARROW_RIGHT", "ARROW_UP", "ARROW_DOWN"})

SpecEdit == InitEdit /\ [][NextEdit]_vars

\* Block moves: a quick selection, ESC into SELECTION_MODE, and the arrow keys.
InitMove == InitWith({FileBlock, FileMixed})

NextMove ==
  \/ KeyArrow({0}, MoveKeys, {"ARROW_UP", "ARROW_DOWN", "ARROW_LEFT", "ARROW_RIGHT"})
  \/ KeyShift({0}, MoveKeys, {"SHIFT_DOWN", "SHIFT_RIGHT", "SHIFT_LEFT"})
  \/ KeyEsc({0}, MoveKeys)

SpecMove == InitMove /\ [][NextMove]_vars

\* Typing sessions: characters typed 0, 2 or 3 seconds after the previous
\* key, with newlines and undos in between.
InitTyping == InitWith({NoFile, FileIndented})

NextTyping ==
  \/ KeyTyped({0, 2, 3}, TypingKeys, {"x"})
  \/ KeyEnter({0, 3}, TypingKeys)
  \/ KeyCtrlZ({0}, TypingKeys)

SpecTyping == InitTyping /\ [][NextTyping]_vars

\* Quitting: Ctrl-Q on a clean and on a changed document, with other keys
\* in between.
InitQuit == InitWith({NoFile, FileIndented})

NextQuit ==
  \/ KeyCtrlQ({0}, QuitKeys)
  \/ KeyChar({0}, QuitKeys, {"x"})
  \/ KeyArrow({0}, QuitKeys, {"ARROW_RIGHT"})
  \/ KeyCtrlB({0}, QuitKeys)
  \/ KeyCtrlE({0}, QuitKeys)

SpecQuit == InitQuit /\ [][NextQuit]_vars

\* Repeated highlighting: a selection is marked and dropped again, which
\* highlights its rows once more without changing them.
InitRescan == InitWith({FileCode, FileOpenComment})

NextRescan ==
  \/ KeyArrow({0}, RescanKeys, {"ARROW_RIGHT", "ARROW_DOWN"})
  \/ KeyCtrlB({0}, RescanKeys)
  \/ KeyCtrlE({0}, RescanKeys)
  \/ KeyEsc({0}, RescanKeys)
  \/ KeyCtrlW({0}, RescanKeys)

SpecRescan == InitRescan /\ [][NextRescan]_vars

\* Cut and paste: a quick selection over up to three rows is cut and pasted
\* back.
InitCut == InitWith({FileBlock})

NextCut ==
  \/ KeyArrow({0}, CutKeys, {"ARROW_RIGHT"})
  \/ KeyShift({0}, CutKeys, {"SHIFT_DOWN", "SHIFT_RIGHT", "SHIFT_LEFT"})
  \/ KeyCtrlK({1}, CutKeys)
  \/ KeyCtrlU({1}, CutKeys)

SpecCut == InitCut /\ [][NextCut]_vars

\* The row store: its four operations called with every position in and
\* around the valid range, on an empty document and on one of two rows.
InitStore == InitWith({NoFile, FileAbC})

NextStore ==
  \/ StoreInsertRow({<<"x">>})
  \/ StoreDelRow
  \/ StoreRowInsertChar({"x"})
  \/ StoreRowDelChar

SpecStore == InitStore /\ [][NextStore]_vars

\* Quick selection: Shift with the arrow keys, and cursor moves between them.
InitQuick == InitWith({FileAbC})

NextQuick ==
  \/ KeyShift({0}, QuickKeys, {"SHIFT_UP", "SHIFT_DOWN", "SHIFT_LEFT", "SHIFT_RIGHT"})
  \/ KeyArrow({0}, QuickKeys, {"ARROW_RIGHT", "ARROW_DOWN"})

SpecQuick == InitQuick /\ [][NextQuick]_vars

\* Clipboard: quick selections, copy, cut and paste on a document of two rows.
InitPaste == InitWith({FileAbC})

NextPaste ==
  \/ KeyArrow({0}, PasteKeys, {"ARROW_RIGHT"})
  \/ KeyShift({0}, PasteKeys, {"SHIFT_RIGHT", "SHIFT_DOWN"})
  \/ KeyEsc({0}, PasteKeys)
  \/ KeyCtrlW({0}, PasteKeys)
  \/ KeyCtrlK({1}, PasteKeys)
  \/ KeyCtrlU({1}, PasteKeys)

SpecPaste == InitPaste /\ [][NextPaste]_vars

\* Syntax highlighting: editing documents that were loaded with a syntax.
InitSyntax == InitWith({FileComment, FileCode})

NextSyntax ==
  \/ KeyChar({0}, SyntaxKeys, {"/", "*"})
  \/ KeyEnter({1}, SyntaxKeys)
  \/ KeyBackspace({1}, SyntaxKeys)
  \/ KeyDel({1}, SyntaxKeys)
  \/ KeyArrow({0}, SyntaxKeys, {"ARROW_RIGHT", "ARROW_DOWN"})

SpecSyntax == InitSyntax /\ [][NextSyntax]_vars

\* Selection operations: marking, indenting, unindenting, moving and
\* deleting a selection on a document of three rows.
InitBlock == InitWith({FileBlock})

NextBlock ==
  \/ KeyArrow({0}, BlockKeys, {"ARROW_RIGHT", "ARROW_DOWN"})
  \/ KeyCtrlB({0}, BlockKeys)
  \/ KeyCtrlE({0}, BlockKeys)
  \/ KeyTab({0}, BlockKeys)
  \/ KeyBackspace({1}, BlockKeys)
  \/ KeyDel({1}, BlockKeys)

SpecBlock == InitBlock /\ [][NextBlock]_vars

\* Row functions: every row of tabs, spaces and letters up to MaxRowLen, alone
\* or below another row, with the cursor anywhere on it.
RowChars == {"\t", " ", "a"}

RowsUpTo(n) == UNION {[1..k -> RowChars] : k \in 0..n}

RowFiles ==
  {[kind |-> "lines", syntax |-> <<>>, lines |-> above \o <<r>>] :
     r \in RowsUpTo(MaxRowLen), above \in {<<>>, << <<"a">> >>}}

InitRow ==
  /\ \E f \in RowFiles : \E c \in 0..Len(f.lines[Len(f.lines)]) :
       E = [Start(f) EXCEPT !.cy = Len(f.lines) - 1, !.cx = c]
  /\ now = StartTime
  /\ last_typing_time = 0
  /\ quit_times = WEE_QUIT_TIMES
  /\ exited = FALSE
  /\ nkeys = 0
  /\ log = <<>>

NextRow ==
  \/ CallCxToRx
  \/ CallRxToCx
  \/ CallRowInsertChar({"a", "\t"})
  \/ CallRowDelChar
  \/ CallInsertNewline
  \/ CallDelCharAtColumn0

SpecRow == InitRow /\ [][NextRow]_vars

(* ------------------------------- claims ------------------------------- *)

\* the state before the last key, and before the key pressed before it
Pre == log[Len(log)].pre

PrePre == log[1].pre

\* does e carry an active selection with two different endpoints inside the
\* document
NonEmptySelection(e) ==
  /\ e.selection_active = 1
  /\ SelectionOk(e)
  /\ <<e.selection_start_cy, e.selection_start_cx>> /= <<e.selection_end_cy, e.selection_end_cx>>

\* the last two keys were Delete on a non-empty selection in SELECTION_MODE,
\* then Ctrl-Z
DeletedThenUndone ==
  /\ Len(log) = 2
  /\ log[1].key = "DEL_KEY" /\ log[2].key = "CTRL_Z"
  /\ PrePre.mode = SELECTION_MODE
  /\ NonEmptySelection(PrePre)
  /\ ~E.ub

\* C1: deleting a non-empty selection (Delete in SELECTION_MODE) and then
\* undoing leaves the rows' contents equal to the contents before the delete.
C1_DeleteUndoRestores == DeletedThenUndone => Text(E) = Text(PrePre)

\* keys whose handler is neither undo, redo nor a file load
EditKeys == {"CHAR", "ENTER", "TAB", "BACKSPACE", "DEL_KEY", "CTRL_K", "CTRL_U"}

\* the last key left a snapshot of the state before it at the tail of the
\* chain, as `current'
CapturedPre ==
  LET u == E.undo_system
  IN  /\ u /= Pre.undo_system
      /\ u.current = Len(u.snaps) /\ u.current > 0
      /\ \E d \in {"Typing", "Insert newline", "Delete character", "Delete selection",
                   "Cut selection", "Cut line", "Paste", "Replace selection"} :
           u.snaps[u.current] = editorCopyCurrentState(Pre, d)

\* C2: every keypress that changes the document content captures a snapshot
\* of the state before the edit, unless the previous snapshot is newer than
\* the debounce interval.
C2_EditsAreSnapshotted ==
  (LastKey \in EditKeys /\ ~E.ub /\ Text(E) /= Text(Pre))
    => (CapturedPre \/ Debounced(Pre.undo_system, now))

\* the last two keys: a fresh edit that changed the content, then Ctrl-R
RedoAfterFreshEdit ==
  /\ Len(log) = 2
  /\ log[1].key \in EditKeys /\ Text(Pre) /= Text(PrePre)
  /\ log[2].key = "CTRL_R" /\ Pre.mode = NORMAL_MODE

\* C3: a redo immediately after a fresh edit changes nothing and reports
\* "Nothing to redo", also when the edit followed one or more undos.
C3_NoRedoAfterFreshEdit ==
  RedoAfterFreshEdit => E = editorSetStatusMessage(Pre, <<"Nothing to redo">>)

\* is the live state of e the state stored in snapshot snap
IsStateOf(e, snap) ==
  \E d \in {snap.description} : editorCopyCurrentState(e, d) = snap

\* MAX_SNAPSHOTS + 1 or more captured edits, then MAX_SNAPSHOTS or more undos
UndoneCapacityTimes ==
  /\ nkeys >= MAX_SNAPSHOTS + 1
  /\ LastKey = "CTRL_Z" /\ LastRun >= MAX_SNAPSHOTS

\* C4: after capacity + 1 captured edits, capacity undos leave the editor in
\* the state of the oldest retained snapshot, not in the original state.
C4_UndoReachesOldestRetained ==
  UndoneCapacityTimes =>
    /\ E.undo_system.current = 1
    /\ IsStateOf(E, E.undo_system.snaps[1])
    /\ Text(E) /= Text(Start(NoFile))

C4_Witness == UndoneCapacityTimes /\ nkeys = MAX_SNAPSHOTS + 1 /\ LastRun = MAX_SNAPSHOTS

\* the last key captured a snapshot while `current' was not the tail
CapturedOffTail ==
  /\ LastKey \in EditKeys
  /\ E.undo_system /= Pre.undo_system
  /\ Pre.undo_system.current > 0
  /\ Pre.undo_system.current < Len(Pre.undo_system.snaps)

\* C5: a capture while `current' is not the tail removes every snapshot
\* after `current': the new snapshot is tail and current, its predecessor is
\* the old current, and there is nothing to redo.
C5_CapturePrunesRedoBranch ==
  CapturedOffTail =>
    LET u == E.undo_system
        pu == Pre.undo_system
    IN  /\ Len(u.snaps) = pu.current + 1
        /\ u.current = Len(u.snaps)
        /\ Prefix(u.snaps, pu.current) = Prefix(pu.snaps, pu.current)
        /\ CapturedPre
        /\ editorRedo(E) = editorSetStatusMessage(E, <<"Nothing to redo">>)

C5_Witness == CapturedOffTail /\ Len(Pre.undo_system.snaps) - Pre.undo_system.current >= 2

\* the last key captured a snapshot that made the count exceed the capacity
CapturedAtCapacity ==
  /\ LastKey = "ENTER"
  /\ E.undo_system /= Pre.undo_system
  /\ Pre.undo_system.current_count = Pre.undo_system.max_snapshots
  /\ Pre.undo_system.current = Len(Pre.undo_system.snaps)

\* C6: the chain holds current_count snapshots, at most max_snapshots; a
\* capture beyond the capacity removes exactly the head, and `current' is the
\* new snapshot, inside the chain.
C6_CountAndEviction ==
  LET u == E.undo_system
  IN  /\ Len(u.snaps) = u.current_count
      /\ u.current_count <= u.max_snapshots
      /\ u.current \in 0..Len(u.snaps)
      /\ CapturedAtCapacity =>
           /\ Prefix(u.snaps, Len(u.snaps) - 1) = Tail(Pre.undo_system.snaps)
           /\ CapturedPre

C6_Witness == CapturedAtCapacity /\ E.undo_system.current_count = MAX_SNAPSHOTS

\* C7: undo with no previous snapshot and redo with no next snapshot change
\* nothing but the status message.
C7_BoundaryIsNoOp ==
  /\ (LastKey = "CTRL_Z" /\ Pre.mode = NORMAL_MODE /\ NoPrev(Pre.undo_system))
       => E = editorSetStatusMessage(Pre, <<"Nothing to undo">>)
  /\ (LastKey = "CTRL_R" /\ Pre.mode = NORMAL_MODE /\ NoNext(Pre.undo_system))
       => E = editorSetStatusMessage(Pre, <<"Nothing to redo">>)

C7_Witness ==
  /\ Len(log) = 2
  /\ log[1].key = "CTRL_Z" /\ PrePre.undo_system.current = 1
  /\ log[2].key = "CTRL_R" /\ Pre.undo_system.current = 1
  /\ Len(Pre.undo_system.snaps) = 1

\* did the key of log entry l replace the document (editorOpen reached the
\* load, editorNewFile was not aborted)
Loaded(l) ==
  /\ l.key \in {"CTRL_T", "CTRL_O"}
  /\ l.pre.mode = NORMAL_MODE
  /\ l.key = "CTRL_O" => l.arg.file.kind \in {"lines", "missing"}
  /\ editorAskToSave(l.pre, l.arg.answer).ok

\* C8: after a file load or new file the history is empty, and an undo or
\* redo right after it does not bring back content of the previous document.
C8_LoadClearsHistory ==
  /\ (log /= <<>> /\ Loaded(log[Len(log)])) =>
       /\ E.undo_system.snaps = <<>>
       /\ E.undo_system.current = 0
       /\ E.undo_system.current_count = 0
  /\ (Len(log) = 2 /\ Loaded(log[1]) /\ log[2].key \in {"CTRL_Z", "CTRL_R"}) =>
       Text(E) = Text(Pre)

C8_Witness ==
  /\ Len(log) = 2 /\ Loaded(log[1]) /\ log[2].key = "CTRL_Z"
  /\ PrePre.undo_system.current_count > 0
  /\ Text(PrePre) /= Text(Pre)

\* C9: right after editorOpen or editorNewFile has replaced the document no
\* selection is active and the mode is Normal.
C9_NoSelectionAfterLoad ==
  (log /= <<>> /\ Loaded(log[Len(log)])) =>
    (E.selection_active = 0 /\ E.mode = NORMAL_MODE)

\* the selection from (row 0, col 1) to (row 1, col 2) on rows "abc", "def"
ExampleSelected(e) ==
  /\ Text(e) = << <<"a", "b", "c">>, <<"d", "e", "f">> >>
  /\ e.mode = SELECTION_MODE /\ e.selection_active = 1
  /\ e.selection_start_cy = 0 /\ e.selection_start_cx = 1
  /\ e.selection_end_cy = 1 /\ e.selection_end_cx = 2

\* C10: on rows "abc", "def" with (0,1)..(1,2) selected, delete makes the
\* rows "aef", and a following undo brings back "abc", "def" with the same
\* selection active.
C10_ExampleDeleteUndo ==
  (Len(log) = 2 /\ log[1].key = "DEL_KEY" /\ ExampleSelected(PrePre)
   /\ log[2].key = "CTRL_Z") =>
       /\ Text(Pre) = << <<"a", "e", "f">> >>
       /\ Text(E) = Text(PrePre)
       /\ E.selection_active = 1
       /\ E.selection_start_cy = 0 /\ E.selection_start_cx = 1
       /\ E.selection_end_cy = 1 /\ E.selection_end_cx = 2

\* C11: every row stores its own position: row[i].idx = i for all
\* 0 <= i < numrows, after every structural change of the row array.
C11_RowIdx ==
  ~E.ub => /\ E.numrows = Len(E.row)
           /\ \A i \in 1..Len(E.row) : E.row[i].idx = i - 1

\* a vertical block move has just changed the order of the rows
C11_Witness ==
  /\ ~E.ub
  /\ LastKey \in {"ARROW_UP", "ARROW_DOWN"} /\ Pre.mode = SELECTION_MODE
  /\ Text(E) /= Text(Pre)

\* the tab expansion of the first n characters of chars
RECURSIVE Expanded(_, _)
Expanded(chars, n) ==
  IF n = 0 THEN <<>>
  ELSE LET head == Expanded(chars, n - 1)
       IN  IF chars[n] = "\t"
           THEN head \o Spaces(WEE_TAB_STOP - (Len(head) % WEE_TAB_STOP))
           ELSE Append(head, chars[n])

\* C12: between keypresses every row's render is the tab expansion of its
\* chars and its hl has one entry per rendered character.
C12_RenderInSync ==
  ~E.ub => \A i \in 1..Len(E.row) :
             /\ E.row[i].render = Expanded(E.row[i].chars, Len(E.row[i].chars))
             /\ Len(E.row[i].hl) = Len(E.row[i].render)

\* Enter has just split a row behind a tab
C12_Witness ==
  /\ ~E.ub
  /\ LastKey = "ENTER" /\ Pre.cx > 0 /\ Pre.mode = NORMAL_MODE
  /\ E.row[Pre.cy + 1].chars = <<"\t">>
  /\ E.row[Pre.cy + 1].render = Spaces(WEE_TAB_STOP)

\* C13: the cursor is inside the document: 0 <= cy <= numrows and
\* 0 <= cx <= length of row cy (0 when cy = numrows).
C13_CursorInBounds ==
  ~E.ub => /\ 0 <= E.cy /\ E.cy <= E.numrows
           /\ 0 <= E.cx
           /\ E.cx <= (IF E.cy < E.numrows THEN Len(E.row[E.cy + 1].chars) ELSE 0)

\* C14: converting a character column to its render column and back gives
\* the character column again, for every 0 <= cx <= row.size.
C14_ColumnRoundTrip ==
  (Len(log) = 2 /\ log[1].key = "CX_TO_RX" /\ log[2].key = "RX_TO_CX")
    => log[2].arg.cx = log[1].arg.cx

\* the round trip was made behind a tab, where the two columns differ
C14_Witness ==
  /\ Len(log) = 2 /\ log[1].key = "CX_TO_RX" /\ log[2].key = "RX_TO_CX"
  /\ log[1].arg.rx > log[1].arg.cx /\ log[1].arg.cx < Len(E.row[E.cy + 1].chars)

\* editorRowInsertChar at a position, then editorRowDelChar at the same one
InsertedThenDeleted ==
  /\ Len(log) = 2 /\ log[1].key = "ROW_INSERT" /\ log[2].key = "ROW_DEL"
  /\ log[1].arg.at = log[2].arg.at

\* C15: inserting a character at a position of a row and deleting the
\* character at that position leaves the row's content and size as before.
C15_InsertDeleteIdentity == InsertedThenDeleted => Text(E) = Text(PrePre)

\* a tab was inserted in the middle of a row and deleted again
C15_Witness ==
  /\ InsertedThenDeleted
  /\ log[1].arg.c = "\t" /\ log[1].arg.at > 0
  /\ log[1].arg.at < Len(PrePre.row[PrePre.cy + 1].chars)

\* editorInsertNewline at the cursor, then editorDelChar at column 0 of the
\* row below
SplitThenJoined ==
  /\ Len(log) = 2 /\ log[1].key = "NEWLINE" /\ log[2].key = "JOIN"
  /\ ~E.ub

\* C16 as stated: a split at any column followed by the join gives back the
\* original rows.
C16_SplitJoinIdentity == SplitThenJoined => Text(E) = Text(PrePre)

\* C16 amended: ... when the split row does not start with a space (the
\* new row then gets no indentation from editorInsertNewline).
C16_SplitJoinUnindented ==
  (SplitThenJoined /\ LeadingSpaces(PrePre.row[PrePre.cy + 1].chars, 0) = 0)
    => Text(E) = Text(PrePre)

\* a row that starts with a tab was split in its middle and joined again
C16_Witness ==
  /\ SplitThenJoined
  /\ PrePre.cx > 0 /\ PrePre.cx < Len(PrePre.row[PrePre.cy + 1].chars)
  /\ PrePre.row[PrePre.cy + 1].chars[1] = "\t"
  /\ Pre.numrows = PrePre.numrows + 1

\* row k (counted from 1) has just been highlighted by editorUpdateSyntax:
\* every row of a file that has just been loaded, and the row typed into
JustHighlighted(k) ==
  \/ log = <<>>
  \/ LastKey = "CHAR" /\ Pre.mode = NORMAL_MODE /\ k = Pre.cy + 1

\* the highlight of a scan of render that starts inside a comment or not
ScannedFrom(syn, render, in_comment) ==
  ScanRow(syn, render, [p \in 1..Len(render) |-> "HL_NORMAL"], 0, TRUE, "", in_comment).hl

\* C18: the scan of a re-highlighted row i > 0 starts inside a multi-line
\* comment exactly when the stored open-comment flag of row i-1 is set, and
\* the scan of row 0 starts outside; so the characters behind an
\* unterminated comment start are classified HL_MLCOMMENT.
C18_ScanStartsFromPreviousRow ==
  (E.syntax /= <<>> /\ ~E.ub) =>
    \A k \in 1..E.numrows :
      JustHighlighted(k) =>
        E.row[k].hl = ScannedFrom(E.syntax[1], E.row[k].render,
                                  k > 1 /\ E.row[k - 1].hl_open_comment)

\* does s occur in chars at or behind index from
Occurs(chars, from, s) ==
  \E p \in from..Len(chars) : StartsWith(chars, p, s)

\* in e a comment opens at the start of row i and closes on row j > i, with
\* no other comment marker on rows i..j-1
CommentSpan(e, i, j) ==
  LET syn == e.syntax[1] IN
  /\ 0 <= i /\ i < j /\ j < e.numrows
  /\ StartsWith(e.row[i + 1].render, 0, syn.mcs)
  /\ \A m \in i..(j - 1) :
       LET from == IF m = i THEN Len(syn.mcs) ELSE 0
       IN  /\ ~Occurs(e.row[m + 1].render, from, syn.mcs)
           /\ ~Occurs(e.row[m + 1].render, from, syn.mce)
  /\ Occurs(e.row[j + 1].render, 0, syn.mce)

\* the two characters of the opening marker at the start of row i were
\* deleted with the Delete key
OpeningMarkerRemoved(i, j) ==
  /\ Len(log) = 2 /\ log[1].key = "DEL_KEY" /\ log[2].key = "DEL_KEY"
  /\ PrePre.mode = NORMAL_MODE /\ PrePre.syntax /= <<>>
  /\ Len(PrePre.syntax[1].mcs) = 2
  /\ PrePre.cy = i /\ PrePre.cx = 0
  /\ CommentSpan(PrePre, i, j)
  /\ ~E.ub

\* C19: when the opening marker of a comment that spans rows i..j is
\* removed from row i, rows i..j-1 have their open-comment flag cleared and
\* none of their characters is classified HL_MLCOMMENT, and the rows behind
\* row j are left as they were.
C19_RemovedMarkerClearsFlags ==
  \A i \in 0..(E.numrows - 1), j \in 0..(E.numrows - 1) :
    OpeningMarkerRemoved(i, j) =>
      /\ \A m \in i..(j - 1) :
           /\ ~E.row[m + 1].hl_open_comment
           /\ \A p \in 1..Len(E.row[m + 1].hl) : E.row[m + 1].hl[p] /= "HL_MLCOMMENT"
      /\ \A m \in (j + 1)..(E.numrows - 1) : E.row[m + 1] = PrePre.row[m + 1]

\* the rows a..b that the selection of e touches
Touched(e) ==
  LET n == Normalized(e) IN n.start_cy .. n.end_cy

\* Tab and then Backspace in SELECTION_MODE, on a selection of existing rows
IndentedThenUnindented ==
  /\ Len(log) = 2 /\ log[1].key = "TAB" /\ log[2].key = "BACKSPACE"
  /\ PrePre.mode = SELECTION_MODE /\ PrePre.selection_active /= 0
  /\ SelectionOk(PrePre)
  /\ ~E.ub

\* Backspace in SELECTION_MODE, on a selection of existing rows
Unindented ==
  /\ LastKey = "BACKSPACE"
  /\ Pre.mode = SELECTION_MODE /\ Pre.selection_active /= 0
  /\ \A i \in Touched(Pre) : RowOk(Pre, i)
  /\ ~E.ub

\* C17: indenting a selection and then unindenting it leaves every row of
\* the document as it was before the indent; an unindent removes at most
\* WEE_TAB_STOP leading characters of a touched row, all of them spaces, and
\* nothing of any other row.
C17_IndentUnindent ==
  /\ IndentedThenUnindented => Text(E) = Text(PrePre)
  /\ Unindented =>
       /\ E.numrows = Pre.numrows
       /\ \A k \in 1..Pre.numrows :
            \E n \in 0..WEE_TAB_STOP :
              /\ Pre.row[k].chars = Spaces(n) \o E.row[k].chars
              /\ (k - 1 \notin Touched(Pre)) => n = 0

\* two rows that already start with a space were indented and unindented,
\* and a third row was outside the selection
C17_Witness ==
  /\ IndentedThenUnindented
  /\ Touched(PrePre) = 0..1
  /\ PrePre.numrows = 3
  /\ PrePre.row[1].chars[1] = " " /\ PrePre.row[2].chars[1] = " "
  /\ Len(Pre.row[1].chars) = Len(PrePre.row[1].chars) + WEE_TAB_STOP

\* Del in SELECTION_MODE on an active, non-empty selection of existing
\* positions
SelectionDeleted ==
  /\ LastKey = "DEL_KEY"
  /\ Pre.mode = SELECTION_MODE
  /\ NonEmptySelection(Pre)
  /\ SelectionOk(Pre)
  /\ ~E.ub

\* C20: after editorDelCharSelection on the normalized range (sr,sc)..(er,ec)
\* row sr is old row sr[0..sc) followed by old row er[ec..end), old rows
\* sr+1..er are gone, every other row is unchanged, the cursor is at (sr,sc)
\* and the selection is inactive.
C20_DeleteSelectionResult ==
  SelectionDeleted =>
    LET n == Normalized(Pre)
        old == Text(Pre)
    IN  /\ Text(E) = Prefix(old, n.start_cy)
                       \o << Prefix(old[n.start_cy + 1], n.start_cx)
                              \o Suffix(old[n.end_cy + 1], n.end_cx) >>
                       \o Suffix(old, n.end_cy + 1)
        /\ E.cx = n.start_cx /\ E.cy = n.start_cy
        /\ E.selection_active = 0

\* a selection from the middle of one row to the middle of the next was
\* deleted, with a row below it
C20_Witness ==
  /\ SelectionDeleted
  /\ Normalized(Pre).start_cx > 0
  /\ Normalized(Pre).end_cy = Normalized(Pre).start_cy + 1
  /\ Normalized(Pre).end_cx < Len(Pre.row[Normalized(Pre).end_cy + 1].chars)
  /\ Pre.numrows > Normalized(Pre).end_cy + 1
  /\ E.numrows = Pre.numrows - 1

\* the content of row cy of a document, empty for the line below the last row
RowAt(text, cy) == IF cy < Len(text) THEN text[cy + 1] ELSE <<>>

\* the characters of s in front of column n, and those from column n on; a
\* column behind the end of s counts as the end
Upto(s, n) == SubSeq(s, 1, IF n > Len(s) THEN Len(s) ELSE n)

From(s, n) == SubSeq(s, (IF n > Len(s) THEN Len(s) ELSE n) + 1, Len(s))

\* the text of a document before position (cy, cx): the rows above, and the
\* part of row cy in front of cx
TextBefore(text, cy, cx) == <<Upto(text, cy), Upto(RowAt(text, cy), cx)>>

\* the text of a document from position (cy, cx) on: the rest of row cy, and
\* the rows below
TextAfter(text, cy, cx) == <<From(RowAt(text, cy), cx), From(text, cy + 1)>>

\* the rows i..last of a document, each preceded by a newline
RECURSIVE RowsWithNewlines(_, _, _)
RowsWithNewlines(text, i, last) ==
  IF i > last THEN <<>>
  ELSE <<"\n">> \o RowAt(text, i) \o RowsWithNewlines(text, i + 1, last)

\* the text between two positions, rows joined by newline
TextBetween(text, sy, sx, ey, ex) ==
  IF sy = ey THEN From(Upto(RowAt(text, sy), ex), sx)
  ELSE From(RowAt(text, sy), sx) \o RowsWithNewlines(text, sy + 1, ey - 1)
       \o <<"\n">> \o Upto(RowAt(text, ey), ex)

\* the document and the insertion point that editorPaste starts from in e: a
\* non-empty active selection is deleted and the point is its start
PasteBase(e) ==
  IF NonEmptySelection(e)
  THEN LET n == Normalized(e)
           old == Text(e)
       IN  [text |-> Prefix(old, n.start_cy)
                     \o << Prefix(old[n.start_cy + 1], n.start_cx)
                            \o Suffix(old[n.end_cy + 1], n.end_cx) >>
                     \o Suffix(old, n.end_cy + 1),
            cy |-> n.start_cy, cx |-> n.start_cx]
  ELSE [text |-> Text(e), cy |-> e.cy, cx |-> e.cx]

\* Ctrl-U in NORMAL_MODE with a clipboard
Pasted ==
  /\ LastKey = "CTRL_U"
  /\ Pre.mode = NORMAL_MODE
  /\ Pre.clipboard /= <<>>
  /\ ~E.ub

\* what C21 says of the state after a paste
PasteResult ==
  LET b == PasteBase(Pre)
      new == Text(E)
  IN  /\ E.selection_active = 1
      /\ E.selection_start_cy = b.cy /\ E.selection_start_cx = b.cx
      /\ E.selection_end_cy = E.cy /\ E.selection_end_cx = E.cx
      /\ TextBetween(new, b.cy, b.cx, E.cy, E.cx) = Pre.clipboard[1]
      /\ TextBefore(new, b.cy, b.cx) = TextBefore(b.text, b.cy, b.cx)
      /\ TextAfter(new, E.cy, E.cx) = TextAfter(b.text, b.cy, b.cx)

\* C21: editorPaste with a clipboard deletes an active selection first;
\* afterwards the selection is active and runs from the paste start to the
\* cursor, the text it covers is the clipboard text, and the text before
\* the paste start and behind the cursor is the text around the insertion
\* point before the paste.
C21_PasteResult == Pasted => PasteResult

\* the last key was a quick-select step of one of the kinds, made in
\* NORMAL_MODE with the cursor on an existing row
QuickStep(keys) ==
  /\ LastKey \in keys
  /\ Pre.mode = NORMAL_MODE
  /\ Pre.cy < Pre.numrows
  /\ ~E.ub

\* C22: after a quick-select step that ends with the moving end on the
\* anchor (same position for a character step, same row for a line step)
\* the selection is inactive and the mode is NORMAL_MODE.
C22_AnchorClearsSelection ==
  /\ (QuickStep({"SHIFT_LEFT", "SHIFT_RIGHT"})
        /\ E.selection_end_cy = E.selection_start_cy
        /\ E.selection_end_cx = E.selection_start_cx)
       => (E.selection_active = 0 /\ E.mode = NORMAL_MODE)
  /\ (QuickStep({"SHIFT_UP", "SHIFT_DOWN"})
        /\ E.selection_end_cy = E.selection_start_cy)
       => (E.selection_active = 0 /\ E.mode = NORMAL_MODE)

\* SHIFT_RIGHT and then SHIFT_LEFT, the first with no selection active and
\* the cursor at a position of an existing row
RightThenLeft ==
  /\ Len(log) = 2 /\ log[1].key = "SHIFT_RIGHT" /\ log[2].key = "SHIFT_LEFT"
  /\ PrePre.mode = NORMAL_MODE /\ PrePre.selection_active = 0
  /\ PosOk(PrePre, PrePre.cy, PrePre.cx)
  /\ ~E.ub

\* is the cursor of e at the end of the last row
AtEndOfDocument(e) ==
  e.cy = e.numrows - 1 /\ e.cx = Len(e.row[e.cy + 1].chars)

\* C23 as stated: from every cursor position, a character step to the right
\* and one to the left end at the original position with no selection.
C23_RightLeftReturns ==
  RightThenLeft =>
    (E.cx = PrePre.cx /\ E.cy = PrePre.cy /\ E.selection_active = 0)

\* C23 amended: ... from every cursor position but the end of the last row
\* (where the step to the right cannot move).
C23_RightLeftReturnsInside ==
  (RightThenLeft /\ ~AtEndOfDocument(PrePre)) =>
    (E.cx = PrePre.cx /\ E.cy = PrePre.cy /\ E.selection_active = 0)

\* the two steps crossed from the end of a row to the row below and back
C23_Witness ==
  /\ RightThenLeft
  /\ Pre.cy = PrePre.cy + 1
  /\ PrePre.cx > 0
  /\ Pre.selection_active = 1

\* the selection that the last line step worked on was started by a line
\* step: by this one, or by the one before it
StartedByLineStep ==
  \/ Pre.selection_active = 0
  \/ /\ Len(log) = 2 /\ log[1].key \in {"SHIFT_UP", "SHIFT_DOWN"}
     /\ PrePre.mode = NORMAL_MODE /\ PrePre.selection_active = 0

\* C24: when a line step has moved the cursor and the selection is still
\* active, the normalized range starts at column 0 of its first row and
\* ends at the length of its last row, and the anchor row is inside it.
C24_LineStepCoversWholeRows ==
  (QuickStep({"SHIFT_UP", "SHIFT_DOWN"}) /\ StartedByLineStep
     /\ E.cy /= Pre.cy /\ E.selection_active = 1)
    => LET n == Normalized(E)
       IN  /\ n.start_cx = 0
           /\ n.end_cx = Len(E.row[n.end_cy + 1].chars)
           /\ E.selection_start_cy \in n.start_cy .. n.end_cy

\* an arrow key of the set was pressed in SELECTION_MODE
BlockKey(keys) ==
  /\ LastKey \in keys
  /\ Pre.mode = SELECTION_MODE
  /\ ~E.ub

\* the normalized selection of e covers whole rows and has a row next to it
\* in the direction of the key
VerticalMovePermitted(e, key) ==
  LET n == Normalized(e)
  IN  /\ e.selection_active /= 0
      /\ SelectionOk(e)
      /\ n.start_cx = 0
      /\ n.end_cx = Len(e.row[n.end_cy + 1].chars)
      /\ IF key = "ARROW_UP" THEN n.start_cy > 0 ELSE n.end_cy < e.numrows - 1

\* C25: editorMoveSelection with Up or Down changes document, cursor and
\* selection when the normalized selection covers whole rows and a row
\* exists next to it in that direction, and in every other case changes
\* nothing but the status message.
C25_VerticalMoveOnlyWhenPermitted ==
  BlockKey({"ARROW_UP", "ARROW_DOWN"}) =>
    IF VerticalMovePermitted(Pre, LastKey)
    THEN /\ E.dirty = Pre.dirty + 1
         /\ E.selection_start_cy /= Pre.selection_start_cy
         /\ E.selection_end_cy /= Pre.selection_end_cy
    ELSE [E EXCEPT !.statusmsg = Pre.statusmsg] = Pre

\* a move was refused for a selection that starts inside its first row,
\* although there is a row to move to
C25_Witness ==
  /\ BlockKey({"ARROW_DOWN"})
  /\ Pre.selection_active = 1
  /\ Normalized(Pre).start_cx > 0
  /\ Normalized(Pre).end_cx = Len(Pre.row[Normalized(Pre).end_cy + 1].chars)
  /\ Normalized(Pre).end_cy < Pre.numrows - 1
  /\ E.statusmsg /= Pre.statusmsg

\* C26: a permitted vertical move keeps every row once: the rows of the
\* block keep their contents and order one position higher (lower), the row
\* they displace follows (precedes) the block, every other row is unchanged
\* and the selection covers the same text as before.
C26_VerticalMoveKeepsRows ==
  (BlockKey({"ARROW_UP", "ARROW_DOWN"}) /\ VerticalMovePermitted(Pre, LastKey)) =>
    LET n == Normalized(Pre)
        m == Normalized(E)
        old == Text(Pre)
    IN  /\ Text(E) = IF LastKey = "ARROW_UP"
                     THEN Prefix(old, n.start_cy - 1)
                          \o SubSeq(old, n.start_cy + 1, n.end_cy + 1)
                          \o <<old[n.start_cy]>>
                          \o Suffix(old, n.end_cy + 1)
                     ELSE Prefix(old, n.start_cy)
                          \o <<old[n.end_cy + 2]>>
                          \o SubSeq(old, n.start_cy + 1, n.end_cy + 1)
                          \o Suffix(old, n.end_cy + 2)
        /\ E.selection_active = 1
        /\ TextBetween(Text(E), m.start_cy, m.start_cx, m.end_cy, m.end_cx)
             = TextBetween(old, n.start_cy, n.start_cx, n.end_cy, n.end_cx)

\* a block of two rows was moved up past a third row
C26_Witness ==
  /\ BlockKey({"ARROW_UP"}) /\ VerticalMovePermitted(Pre, "ARROW_UP")
  /\ Normalized(Pre).end_cy = Normalized(Pre).start_cy + 1
  /\ Pre.numrows = 3
  /\ Text(E) /= Text(Pre)

\* row k (counted from 0) of a selection n: the column of its boundary, the
\* start of the range on the first row and column 0 on every further row
Boundary(n, k) == IF k = n.start_cy THEN n.start_cx ELSE 0

\* the column of the space a left shift removes from row k: the one in front
\* of the start of the range on the first row, the first one of a further row
Removable(n, k) == IF k = n.start_cy THEN n.start_cx - 1 ELSE 0

\* every touched row of e has a space just in front of its boundary
AllRemovable(e) ==
  LET n == Normalized(e)
  IN  \A k \in n.start_cy..n.end_cy :
        /\ Removable(n, k) >= 0
        /\ Removable(n, k) < Len(e.row[k + 1].chars)
        /\ e.row[k + 1].chars[Removable(n, k) + 1] = " "

\* a horizontal move of an active selection of existing positions
HorizontalMove(key) ==
  /\ BlockKey({key})
  /\ Pre.selection_active = 1
  /\ SelectionOk(Pre)

\* C27: a left shift is performed only when every touched row has a
\* removable space at its boundary, and then removes exactly that space from
\* every touched row; otherwise document and selection are unchanged.  A
\* right shift inserts exactly one space at the boundary of every touched
\* row.
C27_HorizontalShift ==
  LET n == Normalized(Pre)
      old == Text(Pre)
      touched == n.start_cy .. n.end_cy
  IN  /\ HorizontalMove("ARROW_LEFT") =>
           IF AllRemovable(Pre)
           THEN Text(E) = [k \in 1..Len(old) |->
                             IF k - 1 \in touched
                             THEN Prefix(old[k], Removable(n, k - 1))
                                  \o Suffix(old[k], Removable(n, k - 1) + 1)
                             ELSE old[k]]
           ELSE /\ Text(E) = old
                /\ [E EXCEPT !.statusmsg = Pre.statusmsg] = Pre
      /\ HorizontalMove("ARROW_RIGHT") =>
           Text(E) = [k \in 1..Len(old) |->
                        IF k - 1 \in touched
                        THEN Prefix(old[k], Boundary(n, k - 1)) \o <<" ">>
                             \o Suffix(old[k], Boundary(n, k - 1))
                        ELSE old[k]]

\* a left shift was refused for a selection of two rows whose first row has
\* the space and whose second row has not
C27_Witness ==
  /\ HorizontalMove("ARROW_LEFT")
  /\ Normalized(Pre).end_cy > Normalized(Pre).start_cy
  /\ Normalized(Pre).start_cx > 0
  /\ Pre.row[Normalized(Pre).start_cy + 1].chars[Normalized(Pre).start_cx] = " "
  /\ ~AllRemovable(Pre)
  /\ Text(E) = Text(Pre)

\* the keys of SELECTION_MODE that work on the selected range
RangeKeys ==
  {"DEL_KEY", "CTRL_W", "CTRL_K", "TAB", "BACKSPACE",
   "ARROW_UP", "ARROW_DOWN", "ARROW_LEFT", "ARROW_RIGHT"}

\* what editorProcessKeypress does with a key of RangeKeys at time t
RangeOperation(e, key, t) ==
  CASE key = "DEL_KEY" -> OnDelKey(e, t)
    [] key = "CTRL_W" -> OnCtrlW(e)
    [] key = "CTRL_K" -> OnCtrlK(e, t)
    [] key = "TAB" -> OnTab(e)
    [] key = "BACKSPACE" -> OnBackspace(e, t)
    [] OTHER -> OnArrow(e, key)

\* e with the two endpoints of its selection stored the other way round
Swapped(e) ==
  [e EXCEPT !.selection_start_cx = e.selection_end_cx,
            !.selection_start_cy = e.selection_end_cy,
            !.selection_end_cx = e.selection_start_cx,
            !.selection_end_cy = e.selection_start_cy]

\* document, clipboard, cursor and normalized selection of e
RangeOutcome(e) ==
  [ub |-> e.ub, text |-> Text(e), clipboard |-> e.clipboard, cx |-> e.cx, cy |-> e.cy,
   active |-> e.selection_active,
   selection |-> IF e.selection_active /= 0 THEN Normalized(e) ELSE <<>>]

\* C28: a range operation (delete, copy, cut, indent, unindent, horizontal
\* and vertical move) gives the same document, clipboard, cursor and
\* normalized selection whether the selection is stored as (start = A,
\* end = B) or as (start = B, end = A).
C28_AnchorIndependent ==
  (/\ LastKey \in RangeKeys
   /\ Pre.mode = SELECTION_MODE
   /\ Pre.selection_active = 1
   /\ SelectionOk(Pre)
   /\ ~E.ub) =>
    RangeOutcome(RangeOperation(Swapped(Pre), LastKey, now)) = RangeOutcome(E)

\* a key of RangeKeys was pressed in SELECTION_MODE while both endpoints of
\* the active selection were the same position
OnZeroWidth ==
  /\ LastKey \in RangeKeys
  /\ Pre.mode = SELECTION_MODE
  /\ Pre.selection_active = 1
  /\ Pre.selection_start_cy = Pre.selection_end_cy
  /\ Pre.selection_start_cx = Pre.selection_end_cx

\* C29: every selection operation (delete, copy, cut, indent, unindent,
\* horizontal and vertical move) on a zero-width active selection is a
\* no-op: document, clipboard and cursor are unchanged and nothing fails.
C29_ZeroWidthNoOp ==
  OnZeroWidth =>
    /\ ~E.ub
    /\ Text(E) = Text(Pre)
    /\ E.clipboard = Pre.clipboard
    /\ E.cx = Pre.cx /\ E.cy = Pre.cy

\* the last call of the row store was given a position outside the range
\* the called operation accepts
OutOfRange ==
  LET at == log[Len(log)].arg.at
      size == Len(Pre.row[log[Len(log)].arg.r + 1].chars)
  IN  /\ ~E.ub
      /\ CASE LastKey = "INSERT_ROW" -> at < 0 \/ at > Pre.numrows
            [] LastKey = "DEL_ROW" -> at < 0 \/ at >= Pre.numrows
            [] LastKey = "ROW_DEL" -> at < 0 \/ at >= size
            [] LastKey = "ROW_INSERT" -> at < 0 \/ at > size
            [] OTHER -> FALSE

\* rows, their sizes, their number and the dirty counter are as before
StoreUnchanged ==
  E.row = Pre.row /\ E.numrows = Pre.numrows /\ E.dirty = Pre.dirty

\* C30 as stated: editorInsertRow, editorDelRow, editorRowDelChar and
\* editorRowInsertChar called with an out-of-range position leave rows,
\* sizes and the dirty counter unchanged.
C30_OutOfRangeRejected == OutOfRange => StoreUnchanged

\* C30 as amended: editorInsertRow, editorDelRow and editorRowDelChar called
\* with an out-of-range position leave rows, sizes and the dirty counter
\* unchanged; editorRowInsertChar called with one appends the character to
\* the row and increments the dirty counter.
C30_OutOfRangeRejectedOrAppended ==
  OutOfRange =>
    IF LastKey = "ROW_INSERT"
    THEN LET r == log[Len(log)].arg.r
         IN  /\ Text(E) = [Text(Pre) EXCEPT ![r + 1] = @ \o log[Len(log)].arg.c]
             /\ E.numrows = Pre.numrows
             /\ E.dirty = Pre.dirty + 1
    ELSE StoreUnchanged

\* editorRowInsertChar was called with a negative position on a row that is
\* not empty
C30_Witness ==
  /\ OutOfRange
  /\ LastKey = "ROW_INSERT"
  /\ log[Len(log)].arg.at < 0
  /\ Len(Pre.row[log[Len(log)].arg.r + 1].chars) > 0
  /\ E.dirty = Pre.dirty + 1

\* a character was typed in NORMAL_MODE with no selection active
Typed ==
  /\ LastKey = "TYPED"
  /\ Pre.mode = NORMAL_MODE
  /\ Pre.selection_active = 0
  /\ ~E.ub

\* seconds between the last typed character and the one typed before it
Idle == log[Len(log)].arg.at - log[Len(log)].arg.ltt

\* the last key captured the state before it as the snapshot `current'
CapturedTyping ==
  /\ E.undo_system.current > 0
  /\ E.undo_system.snaps[E.undo_system.current] = editorCopyCurrentState(Pre, "Typing")
  /\ E.undo_system.last_snapshot_time = log[Len(log)].arg.at

\* C31 as stated: a character typed no more than 2 seconds after the previous
\* one leaves the history as it is (the run has the one snapshot captured at
\* its first insertion), and a character typed after more than 2 seconds
\* captures a new snapshot.
C31_TypingSession ==
  Typed => IF Idle > 2 THEN CapturedTyping
           ELSE E.undo_system = Pre.undo_system

\* C31 as amended: a character typed after more than 2 seconds captures a
\* new snapshot unless a snapshot was captured less than 1 second before it
\* (editorCreateSnapshot's debounce); then, and inside a run, the history is
\* left as it is.
C31_TypingSessionDebounced ==
  Typed => IF Idle > 2 /\ ~Debounced(Pre.undo_system, log[Len(log)].arg.at)
           THEN CapturedTyping
           ELSE E.undo_system = Pre.undo_system

\* the second character of a run: the one before it captured a snapshot, the
\* last one, typed 2 seconds later, did not
C31_Witness ==
  /\ Typed
  /\ Len(log) = 2
  /\ log[1].key = "TYPED"
  /\ Idle = 2
  /\ Pre.undo_system /= PrePre.undo_system
  /\ E.undo_system = Pre.undo_system
  /\ Text(E) /= Text(Pre)

\* C32: with unsaved changes the editor exits on Ctrl-Q only at the third
\* Ctrl-Q in a row (WEE_QUIT_TIMES warnings come first, each changing the
\* status message only) and any other key restarts the count; with no
\* unsaved changes a single Ctrl-Q in NORMAL_MODE exits.
C32_SafeQuit ==
  /\ exited => LastKey = "CTRL_Q" /\ Pre.mode = NORMAL_MODE
  /\ (LastKey = "CTRL_Q" /\ Pre.mode = NORMAL_MODE) =>
       /\ exited <=> (Pre.dirty = 0 \/ LastRun = WEE_QUIT_TIMES + 1)
       /\ LastRun <= WEE_QUIT_TIMES + 1
       /\ [E EXCEPT !.statusmsg = Pre.statusmsg] = Pre
  /\ LastKey /= "CTRL_Q" => quit_times = WEE_QUIT_TIMES

\* the editor has exited at the third Ctrl-Q in a row on a changed document
C32_Witness ==
  /\ exited
  /\ LastKey = "CTRL_Q"
  /\ LastRun = WEE_QUIT_TIMES + 1
  /\ Pre.dirty /= 0

\* Del or Backspace in SELECTION_MODE on an active, non-empty selection of
\* existing positions
DeleteKeyOnSelection ==
  /\ LastKey \in {"DEL_KEY", "BACKSPACE"}
  /\ Pre.mode = SELECTION_MODE
  /\ NonEmptySelection(Pre)
  /\ ~E.ub

\* C33: in SELECTION_MODE with an active selection both Delete and
\* Backspace remove the selected range from the document, leave the
\* selection inactive and the mode NORMAL_MODE.
C33_DeleteAndBackspaceDelete ==
  DeleteKeyOnSelection =>
    LET n == Normalized(Pre)
        old == Text(Pre)
    IN  /\ Text(E) = Prefix(old, n.start_cy)
                       \o << Prefix(old[n.start_cy + 1], n.start_cx)
                              \o Suffix(old[n.end_cy + 1], n.end_cx) >>
                       \o Suffix(old, n.end_cy + 1)
        /\ E.selection_active = 0
        /\ E.mode = NORMAL_MODE

\* the rows of a document one after the other, each without its leading spaces
RECURSIVE TextOutsideIndent(_, _)
TextOutsideIndent(text, i) ==
  IF i > Len(text) THEN <<>>
  ELSE Suffix(text[i], LeadingSpaces(text[i], 0)) \o TextOutsideIndent(text, i + 1)

\* editorInsertNewline has just been called with the cursor on an existing row
NewlineOnRow ==
  /\ LastKey = "NEWLINE"
  /\ RowOk(Pre, Pre.cy)
  /\ ~E.ub

\* C34: after editorInsertNewline on a row with k leading spaces the row the
\* cursor lands on has k leading spaces, the cursor is at column k and the
\* text of the document outside the indentation is unchanged, for every
\* cursor column.
C34_AutoIndent ==
  NewlineOnRow =>
    LET k == LeadingSpaces(Pre.row[Pre.cy + 1].chars, 0)
    IN  /\ RowOk(E, E.cy)
        /\ LeadingSpaces(E.row[E.cy + 1].chars, 0) = k
        /\ E.cx = k
        /\ TextOutsideIndent(Text(E), 1) = TextOutsideIndent(Text(Pre), 1)

\* the last two keys were Ctrl-Z, which found a previous snapshot to restore,
\* and Ctrl-R
UndoneThenRedone ==
  /\ Len(log) = 2
  /\ log[1].key = "CTRL_Z" /\ log[2].key = "CTRL_R"
  /\ PrePre.mode = NORMAL_MODE
  /\ ~NoPrev(PrePre.undo_system)
  /\ ~E.ub

\* C35: editorRedo right after a successful editorUndo restores document,
\* cursor and selection to the state that existed just before the undo.
C35_UndoRedoIdentity ==
  UndoneThenRedone =>
    /\ Text(E) = Text(PrePre)
    /\ E.cx = PrePre.cx /\ E.cy = PrePre.cy
    /\ E.selection_active = PrePre.selection_active
    /\ E.selection_start_cx = PrePre.selection_start_cx
    /\ E.selection_start_cy = PrePre.selection_start_cy
    /\ E.selection_end_cx = PrePre.selection_end_cx
    /\ E.selection_end_cy = PrePre.selection_end_cy

\* C36: whenever a selection is active both stored endpoints are positions
\* inside the document: 0 <= row < numrows and 0 <= column <= length of
\* that row.
C36_SelectionInsideDocument ==
  (E.selection_active /= 0 /\ ~E.ub) =>
    /\ PosOk(E, E.selection_start_cy, E.selection_start_cx)
    /\ PosOk(E, E.selection_end_cy, E.selection_end_cx)

\* C37: in every reachable state SELECTION_MODE implies that a selection is
\* active.
C37_SelectionModeHasSelection ==
  (E.mode = SELECTION_MODE /\ ~E.ub) => E.selection_active /= 0

\* ESC or Ctrl-W in SELECTION_MODE has dropped an active selection of
\* existing rows: editorDeselectSelection has called editorUpdateSyntax on
\* each of its rows, whose contents are as before
Rehighlighted ==
  /\ LastKey \in {"ESC", "CTRL_W"}
  /\ Pre.mode = SELECTION_MODE
  /\ Pre.selection_active = 1
  /\ SelectionOk(Pre)
  /\ Text(E) = Text(Pre)
  /\ ~E.ub

\* C38: editorUpdateSyntax on a row whose content and preceding rows are
\* unchanged yields the same highlight classes and the same open-comment
\* flag as the computation before it.
C38_UpdateSyntaxIdempotent ==
  Rehighlighted =>
    \A k \in 1..Len(E.row) :
      /\ E.row[k].hl = Pre.row[k].hl
      /\ E.row[k].hl_open_comment = Pre.row[k].hl_open_comment

\* the last two keys were Ctrl-K on an active, non-empty selection of
\* existing positions and Ctrl-U
CutThenPasted ==
  /\ Len(log) = 2
  /\ log[1].key = "CTRL_K" /\ log[2].key = "CTRL_U"
  /\ NonEmptySelection(PrePre)
  /\ ~E.ub

\* C39: editorCutSelection followed by editorPaste at the resulting cursor
\* restores the rows of the document; the clipboard holds the remainder of
\* the first row, a newline, the middle rows each followed by a newline and
\* the prefix of the last row.
C39_CutPasteRestores ==
  CutThenPasted =>
    LET n == Normalized(PrePre)
    IN  /\ Text(E) = Text(PrePre)
        /\ Pre.clipboard
             = <<TextBetween(Text(PrePre), n.start_cy, n.start_cx, n.end_cy, n.end_cx)>>
        /\ <<Pre.cy, Pre.cx>> = <<n.start_cy, n.start_cx>>

\* a selection from inside the first row over a middle row into the third
\* row was cut and pasted back
C39_Witness ==
  /\ CutThenPasted
  /\ Normalized(PrePre).start_cx > 0
  /\ Normalized(PrePre).end_cy = Normalized(PrePre).start_cy + 2
  /\ Normalized(PrePre).end_cx > 0
  /\ Pre.numrows = 1
  /\ E.numrows = 3

\* the last two keys were a printable character, typed in NORMAL_MODE with no
\* selection active, and Backspace
TypedThenBackspace ==
  /\ Len(log) = 2
  /\ log[1].key = "CHAR" /\ log[2].key = "BACKSPACE"
  /\ PrePre.mode = NORMAL_MODE
  /\ PrePre.selection_active = 0
  /\ ~E.ub

\* C40: a printable character typed in NORMAL_MODE with no active selection
\* and then Backspace leave the content of the cursor's row and the cursor
\* position as they were before the character was typed.
C40_TypeBackspaceIdentity ==
  TypedThenBackspace =>
    /\ RowAt(Text(E), PrePre.cy) = RowAt(Text(PrePre), PrePre.cy)
    /\ E.cx = PrePre.cx /\ E.cy = PrePre.cy

====
